---- MODULE Spec2Model ----
(***************************************************************************)
(* A model of the 6502 execution core of 6502dotrs: the register file,     *)
(* the status register, the 64 KiB memory and the fetch/decode/execute     *)
(* loop of Cpu::execute, one action per instruction handler.               *)
(*                                                                         *)
(* Memory.  Memory::data is zeroed by the constructor and then written by  *)
(* the loader (cpu.memory.data[..] = ..) before execute is called.  The    *)
(* variable memory holds the cells whose content is settled: the cells     *)
(* the engine has written or read.  The byte the loader left in any other  *)
(* cell (0 if it left the constructor's zero there) is chosen from         *)
(* LoaderBytes when the engine first reads the cell (Deposit), and is      *)
(* recorded in image, the part of the loaded image the engine has read.    *)
(*                                                                         *)
(* Arithmetic.  u8/u16 `+`, `-`, `+=`, `-=` panic on overflow when the     *)
(* build has overflow checks (cargo's dev/test profile) and wrap when it   *)
(* has not (release): both outcomes are produced wherever a result leaves  *)
(* its width (Arith).  A usize index past the array panics in every build. *)
(***************************************************************************)
EXTENDS Integers, Sequences, FiniteSets, TLC

VARIABLES pc, sp, a, x, y, ps, memory, state, image, hist, limit

vars == <<pc, sp, a, x, y, ps, memory, state, image, hist, limit>>

\* ---------------------------------------------------------------- bounds
\* Calls made on the engine since construction (resets and instructions);
\* a specification sets limit to one of these.
MaxSteps == 3

MaxStackSteps == 4

\* Calls in a run of a program that nests pushes, a call and pulls.
MaxNestSteps == 6

MaxPushSteps == 5

\* Cells of the loaded image the engine reads before it has written them.
MaxCells == 7

\* The bytes the loader may have left in a cell the engine reads.
LoaderBytes == {0, 1, 255}

\* Entry addresses handed to reset.
EntryAddrs == {16}

\* ------------------------------------------------------------- memory.rs
MAX_MEM == 1024 * 64

\* ---------------------------------------------------- processor_status.rs
N == 128
V == 64
B == 16
D == 8
I == 4
Z == 2
C == 1

Bit(u, i) == (u \div (2 ^ i)) % 2

\* u8 `&`
BitAnd(u, v) ==
    LET b(i) == Bit(u, i) * Bit(v, i) * (2 ^ i)
    IN  b(0) + b(1) + b(2) + b(3) + b(4) + b(5) + b(6) + b(7)

\* u8 `|`
BitOr(u, v) == u + v - BitAnd(u, v)

\* ProcessorStatus::all(): the union of the declared flags
AllFlags == N + V + B + D + I + Z + C

\* ProcessorStatus::set(flag, value): insert or remove the flag
Set(bits, flag, value) ==
    IF value THEN BitOr(bits, flag) ELSE BitAnd(bits, 255 - flag)

Contains(bits, flag) == BitAnd(bits, flag) = flag

\* from_bits_unchecked: the byte as it is
from_bits_unchecked(bits) == bits

\* ProcessorStatus::from_bits_truncate: bits that are no flag are dropped
from_bits_truncate(bits) == BitAnd(bits, AllFlags)

\* ProcessorStatus::clear
clear(bits) == 0

\* {:b} of a u8: its binary digits, the most significant first, none leading
RECURSIVE Binary(_)
Binary(bits) ==
    IF bits < 2 THEN <<IF bits = 1 THEN "1" ELSE "0">>
    ELSE Binary(bits \div 2) \o <<IF bits % 2 = 1 THEN "1" ELSE "0">>

\* {:08}: '0' put before the digits until there are eight characters
RECURSIVE Pad(_, _)
Pad(digits, width) ==
    IF Len(digits) >= width THEN digits ELSE Pad(<<"0">> \o digits, width)

\* a rendering without the padding
DisplayUnpadded(bits) == Binary(bits)

\* impl fmt::Display for ProcessorStatus: write!(f, "{:08b}", self.bits)
Display(bits) == Pad(Binary(bits), 8)

\* ------------------------------------------------------------ op_codes.rs
LDA_IM == 169
LDA_ABS == 173
LDA_ABS_X == 189
LDA_ABS_Y == 185
LDA_ZP == 165
LDA_ZP_X == 181
LDA_ZP_XI == 161
LDA_ZP_IY == 177
LDX_IM == 162
LDX_ABS == 163
LDX_ABS_Y == 190
LDX_ZP == 166
LDX_ZP_Y == 182
LDY_IM == 160
LDY_ABS == 172
LDY_ABS_X == 188
LDY_ZP == 164
LDY_ZP_X == 180
NOP == 234
JSR == 32
JMP_ABS == 76
JMP_ABS_IND == 108
RTS == 96
LSR_ACC == 74
LSR_ABS == 78
LSR_ZP == 70
LSR_ABS_X == 94
LSR_ZP_X == 86
PHA == 72
PHP == 8
PLA == 104
PLP == 40
ANDA_IM == 41
ANDA_ABS == 45
ANDA_X_ABS == 61
ANDA_Y_ABS == 57
ANDA_ZP == 37
ANDA_ZP_X == 53
ANDA_ZP_XI == 33
ANDA_ZP_IY == 49
ORA_IM == 9
ORA_ABS == 13
ORA_X_ABS == 29
ORA_Y_ABS == 25
ORA_ZP == 5
ORA_ZP_X == 21
ORA_ZP_XI == 1
ORA_ZP_IY == 17
TAX == 170
TAY == 168
TSX == 186
TXA == 138
TXS == 154
TYA == 152
SEC == 56
SED == 248
SEI == 120

\* ------------------------------------------------------ the engine's state
\* The Cpu struct as one value; state is "Fault" once a panic has unwound.
Cpu ==
    [pc |-> pc, sp |-> sp, a |-> a, x |-> x, y |-> y, ps |-> ps,
     memory |-> memory, state |-> state, image |-> image]

Alive(c) == c.state # "Fault"

\* panic!: nothing after it runs
Panic(c) == [c EXCEPT !.state = "Fault"]

\* Sequencing of steps that return (engine, value) pairs, or engines.
Bind(S, F(_, _)) == UNION {F(r[1], r[2]) : r \in S}

Then(S, F(_)) == UNION {F(c) : c \in S}

\* The last statement of a handler: skipped when a panic came before it.
Ret(c, d) == {IF Alive(c) THEN d ELSE c}

\* value computed in an unsigned type of the given width (modulus 2^bits)
Arith(c, value, modulus) ==
    IF ~Alive(c) THEN {<<c, 0>>}
    ELSE IF value >= 0 /\ value < modulus THEN {<<c, value>>}
    ELSE {<<Panic(c), 0>>, <<c, value % modulus>>}

\* The loader's byte for a cell the engine has neither written nor read yet.
Deposit(c, address, bytes) ==
    IF address \in DOMAIN c.memory THEN {c}
    ELSE IF Cardinality(DOMAIN c.image) >= MaxCells THEN {}
    ELSE {[c EXCEPT !.memory = (address :> v) @@ c.memory,
                    !.image = (address :> v) @@ c.image] : v \in bytes}

\* Memory::read_byte
read_byte(c, address) ==
    IF ~Alive(c) THEN {<<c, 0>>}
    ELSE IF address >= MAX_MEM THEN {<<Panic(c), 0>>}
    ELSE {<<d, d.memory[address]>> : d \in Deposit(c, address, LoaderBytes)}

\* Memory::write_byte
write_byte(c, address, data) ==
    IF ~Alive(c) THEN {c}
    ELSE IF address >= MAX_MEM THEN {Panic(c)}
    ELSE {[c EXCEPT !.memory = (address :> data) @@ c.memory]}

\* read_word that takes the byte at address as the high byte
read_word_high_first(c, address) ==
    Bind(read_byte(c, address), LAMBDA c1, hi :
        Bind(read_byte(c1, address + 1), LAMBDA c2, lo :
            {<<c2, lo + 256 * hi>>}))

\* Memory::read_word
read_word(c, address) ==
    Bind(read_byte(c, address), LAMBDA c1, lo :
        Bind(read_byte(c1, address + 1), LAMBDA c2, hi :
            {<<c2, lo + 256 * hi>>}))

\* write_word that stores the high byte first
write_word_high_first(c, address, data) ==
    Then(write_byte(c, address, data \div 256), LAMBDA c1 :
        write_byte(c1, address + 1, data % 256))

\* Memory::write_word
write_word(c, address, data) ==
    Then(write_byte(c, address, data % 256), LAMBDA c1 :
        write_byte(c1, address + 1, data \div 256))

\* self.pc += 1
inc_pc(c) ==
    Bind(Arith(c, c.pc + 1, 65536), LAMBDA c1, v :
        Ret(c1, [c1 EXCEPT !.pc = v]))

\* Cpu::fetch_byte
fetch_byte(c) ==
    IF ~Alive(c) THEN {<<c, 0>>}
    ELSE IF c.pc > MAX_MEM THEN {<<Panic(c), 0>>}
    ELSE Bind(read_byte(c, c.pc), LAMBDA c1, data :
            {<<c2, data>> : c2 \in inc_pc(c1)})

\* fetch_word that leaves pc on its second byte
fetch_word_one_step(c) ==
    Bind(read_byte(c, c.pc), LAMBDA c1, lo :
        Then(inc_pc(c1), LAMBDA c2 :
            Bind(read_byte(c2, c2.pc), LAMBDA c3, hi :
                {<<c3, lo + 256 * hi>>})))

\* Cpu::fetch_word
fetch_word(c) ==
    Bind(read_byte(c, c.pc), LAMBDA c1, lo :
        Then(inc_pc(c1), LAMBDA c2 :
            Bind(read_byte(c2, c2.pc), LAMBDA c3, hi :
                {<<c4, lo + 256 * hi>> : c4 \in inc_pc(c3)})))

\* set_negative_and_zero_flags that raises the flags and never lowers them
raise_negative_and_zero_flags(c) ==
    [c EXCEPT !.ps = BitOr(BitOr(c.ps, IF c.a = 0 THEN Z ELSE 0),
                           IF BitAnd(c.a, 128) > 0 THEN N ELSE 0)]

\* Cpu::set_negative_and_zero_flags
set_negative_and_zero_flags(c) ==
    [c EXCEPT !.ps = Set(Set(c.ps, Z, c.a = 0), N, BitAnd(c.a, 128) > 0)]

\* set_carry_flag that flips Carry when asked to set it
toggle_carry_flag(c, flag) ==
    [c EXCEPT !.ps = Set(c.ps, C, flag /\ ~Contains(c.ps, C))]

\* Cpu::set_carry_flag
set_carry_flag(c, flag) == [c EXCEPT !.ps = Set(c.ps, C, flag)]


\* ------------------------------------------------------- load accumulator
\* lda_immediate that sets Zero and Negative in a cleared status register
lda_immediate_clearing_status(c) ==
    Bind(fetch_byte(c), LAMBDA c1, data :
        Ret(c1, set_negative_and_zero_flags([c1 EXCEPT !.a = data, !.ps = clear(c1.ps)])))

\* Cpu::lda_immediate
lda_immediate(c) ==
    Bind(fetch_byte(c), LAMBDA c1, data :
        Ret(c1, set_negative_and_zero_flags([c1 EXCEPT !.a = data])))

\* Cpu::lda_absolute
lda_absolute(c) ==
    Bind(fetch_word(c), LAMBDA c1, abs_address :
        Bind(read_byte(c1, abs_address), LAMBDA c2, data :
            Ret(c2, set_negative_and_zero_flags([c2 EXCEPT !.a = data]))))

\* Cpu::lda_absolute_x_indexed
lda_absolute_x_indexed(c) ==
    Bind(fetch_word(c), LAMBDA c1, word :
        Bind(Arith(c1, word + c1.x, 65536), LAMBDA c2, abs_address :
            Bind(read_byte(c2, abs_address), LAMBDA c3, data :
                Ret(c3, set_negative_and_zero_flags([c3 EXCEPT !.a = data])))))

\* Cpu::lda_absolute_y_indexed
lda_absolute_y_indexed(c) ==
    Bind(fetch_word(c), LAMBDA c1, word :
        Bind(Arith(c1, word + c1.y, 65536), LAMBDA c2, abs_address :
            Bind(read_byte(c2, abs_address), LAMBDA c3, data :
                Ret(c3, set_negative_and_zero_flags([c3 EXCEPT !.a = data])))))

\* Cpu::lda_zp
lda_zp(c) ==
    Bind(fetch_byte(c), LAMBDA c1, zero_page_address :
        Bind(read_byte(c1, zero_page_address), LAMBDA c2, data :
            Ret(c2, set_negative_and_zero_flags([c2 EXCEPT !.a = data]))))

\* Cpu::lda_zp_x: the index is added to the byte read, in u8
lda_zp_x(c) ==
    Bind(fetch_byte(c), LAMBDA c1, zero_page_address :
        Bind(read_byte(c1, zero_page_address), LAMBDA c2, data :
            Bind(Arith(c2, data + c2.x, 256), LAMBDA c3, sum :
                Ret(c3, set_negative_and_zero_flags([c3 EXCEPT !.a = sum])))))

\* Cpu::lda_x_indexed_zero_page_indirect: one read, at (operand + x) in u8
lda_x_indexed_zero_page_indirect(c) ==
    Bind(fetch_byte(c), LAMBDA c1, operand :
        Bind(Arith(c1, operand + c1.x, 256), LAMBDA c2, indirect_address :
            Bind(read_byte(c2, indirect_address), LAMBDA c3, data :
                Ret(c3, set_negative_and_zero_flags([c3 EXCEPT !.a = data])))))

\* lda_y_zero_page_indirect_indexed without the index
lda_zero_page_indirect_no_index(c) ==
    Bind(fetch_byte(c), LAMBDA c1, zero_page_address :
        Bind(read_word(c1, zero_page_address), LAMBDA c2, effective_address :
            Bind(read_byte(c2, effective_address), LAMBDA c3, data :
                Ret(c3, set_negative_and_zero_flags([c3 EXCEPT !.a = data])))))

\* Cpu::lda_y_zero_page_indirect_indexed
lda_y_zero_page_indirect_indexed(c) ==
    Bind(fetch_byte(c), LAMBDA c1, zero_page_address :
        Bind(read_word(c1, zero_page_address), LAMBDA c2, effective_address :
            Bind(Arith(c2, effective_address + c2.y, 65536), LAMBDA c3, effective_address_y :
                Bind(read_byte(c3, effective_address_y), LAMBDA c4, data :
                    Ret(c4, set_negative_and_zero_flags([c4 EXCEPT !.a = data]))))))

\* ------------------------------------------------------------ load x index
\* Cpu::ldx_immediate (the flags are set from the accumulator)
ldx_immediate(c) ==
    Bind(fetch_byte(c), LAMBDA c1, data :
        Ret(c1, set_negative_and_zero_flags([c1 EXCEPT !.x = data])))

\* Cpu::ldx_absolute
ldx_absolute(c) ==
    Bind(fetch_word(c), LAMBDA c1, abs_address :
        Bind(read_byte(c1, abs_address), LAMBDA c2, data :
            Ret(c2, set_negative_and_zero_flags([c2 EXCEPT !.x = data]))))

\* Cpu::ldx_zp
ldx_zp(c) ==
    Bind(fetch_byte(c), LAMBDA c1, zero_page_address :
        Bind(read_byte(c1, zero_page_address), LAMBDA c2, data :
            Ret(c2, set_negative_and_zero_flags([c2 EXCEPT !.x = data]))))

\* Cpu::ldx_absolute_y_indexed
ldx_absolute_y_indexed(c) ==
    Bind(fetch_word(c), LAMBDA c1, word :
        Bind(Arith(c1, word + c1.y, 65536), LAMBDA c2, abs_address :
            Bind(read_byte(c2, abs_address), LAMBDA c3, data :
                Ret(c3, set_negative_and_zero_flags([c3 EXCEPT !.x = data])))))

\* Cpu::ldx_y_indexed_zero_page: the index is added to the byte read, in u8
ldx_y_indexed_zero_page(c) ==
    Bind(fetch_byte(c), LAMBDA c1, zero_page_address :
        Bind(read_byte(c1, zero_page_address), LAMBDA c2, data :
            Bind(Arith(c2, data + c2.y, 256), LAMBDA c3, sum :
                Ret(c3, set_negative_and_zero_flags([c3 EXCEPT !.x = sum])))))

\* ------------------------------------------------------------ load y index
\* Cpu::ldy_immediate (the flags are set from the accumulator)
ldy_immediate(c) ==
    Bind(fetch_byte(c), LAMBDA c1, data :
        Ret(c1, set_negative_and_zero_flags([c1 EXCEPT !.y = data])))

\* Cpu::ldy_absolute
ldy_absolute(c) ==
    Bind(fetch_word(c), LAMBDA c1, abs_address :
        Bind(read_byte(c1, abs_address), LAMBDA c2, data :
            Ret(c2, set_negative_and_zero_flags([c2 EXCEPT !.y = data]))))

\* Cpu::ldy_zp
ldy_zp(c) ==
    Bind(fetch_byte(c), LAMBDA c1, zero_page_address :
        Bind(read_byte(c1, zero_page_address), LAMBDA c2, data :
            Ret(c2, set_negative_and_zero_flags([c2 EXCEPT !.y = data]))))

\* Cpu::ldy_absolute_x_indexed
ldy_absolute_x_indexed(c) ==
    Bind(fetch_word(c), LAMBDA c1, word :
        Bind(Arith(c1, word + c1.x, 65536), LAMBDA c2, abs_address :
            Bind(read_byte(c2, abs_address), LAMBDA c3, data :
                Ret(c3, set_negative_and_zero_flags([c3 EXCEPT !.y = data])))))

\* Cpu::ldy_x_indexed_zero_page: the index is added to the byte read, in u8
ldy_x_indexed_zero_page(c) ==
    Bind(fetch_byte(c), LAMBDA c1, zero_page_address :
        Bind(read_byte(c1, zero_page_address), LAMBDA c2, data :
            Bind(Arith(c2, data + c2.x, 256), LAMBDA c3, sum :
                Ret(c3, set_negative_and_zero_flags([c3 EXCEPT !.y = sum])))))

\* ------------------------------------------------------------------ jumps
\* jump_absolute that takes the operand as an offset from the next instruction
jump_absolute_relative(c) ==
    Bind(fetch_word(c), LAMBDA c1, word :
        Ret(c1, [c1 EXCEPT !.pc = (c1.pc + word) % 65536]))

\* Cpu::jump_absolute
jump_absolute(c) ==
    Bind(fetch_word(c), LAMBDA c1, word : Ret(c1, [c1 EXCEPT !.pc = word]))

\* jump_absolute_indirect that reads the pointer word across the page boundary
jump_absolute_indirect_crossing_page(c) ==
    Bind(fetch_word(c), LAMBDA c1, indirect_address :
        Bind(read_word(c1, indirect_address), LAMBDA c2, word :
            Ret(c2, [c2 EXCEPT !.pc = word])))

\* Cpu::jump_absolute_indirect
jump_absolute_indirect(c) ==
    Bind(fetch_word(c), LAMBDA c1, indirect_address :
        Bind(read_byte(c1, indirect_address), LAMBDA c2, low_byte :
            LET hi_byte_address ==
                    IF indirect_address % 256 = 255
                    THEN indirect_address - (indirect_address % 256)
                    ELSE indirect_address + 1
            IN  Bind(read_byte(c2, hi_byte_address), LAMBDA c3, hi_byte :
                    Ret(c3, [c3 EXCEPT !.pc = low_byte + 256 * hi_byte]))))

\* jump_subroutine that pushes the address of the next instruction
jump_subroutine_pushing_next(c) ==
    Bind(fetch_word(c), LAMBDA c1, sub_address :
        Then(write_word(c1, c1.sp, c1.pc), LAMBDA c3 :
            Bind(Arith(c3, c3.sp - 2, 65536), LAMBDA c4, new_sp :
                Ret(c4, [c4 EXCEPT !.sp = new_sp, !.pc = sub_address]))))

\* Cpu::jump_subroutine
jump_subroutine(c) ==
    Bind(fetch_word(c), LAMBDA c1, sub_address :
        Bind(Arith(c1, c1.pc - 1, 65536), LAMBDA c2, return_address :
            Then(write_word(c2, c2.sp, return_address), LAMBDA c3 :
                Bind(Arith(c3, c3.sp - 2, 65536), LAMBDA c4, new_sp :
                    Ret(c4, [c4 EXCEPT !.sp = new_sp, !.pc = sub_address])))))

\* self.sp += 1
inc_sp(c) ==
    Bind(Arith(c, c.sp + 1, 65536), LAMBDA c1, v :
        Ret(c1, [c1 EXCEPT !.sp = v]))

\* self.sp -= 1
dec_sp(c) ==
    Bind(Arith(c, c.sp - 1, 65536), LAMBDA c1, v :
        Ret(c1, [c1 EXCEPT !.sp = v]))

\* Cpu::return_subroutine
return_subroutine(c) ==
    Then(inc_sp(c), LAMBDA c1 :
        Bind(read_byte(c1, c1.sp), LAMBDA c2, pch :
            Then(inc_sp(c2), LAMBDA c3 :
                Bind(read_byte(c3, c3.sp), LAMBDA c4, pcl :
                    Bind(Arith(c4, (256 * pch + pcl) + 1, 65536), LAMBDA c5, v :
                        Ret(c5, [c5 EXCEPT !.pc = v]))))))

\* ------------------------------------------------------------------- AND
\* Cpu::anda_im
anda_im(c) ==
    Bind(fetch_byte(c), LAMBDA c1, value :
        Ret(c1, set_negative_and_zero_flags([c1 EXCEPT !.a = BitAnd(c1.a, value)])))

\* Cpu::anda_abs
anda_abs(c) ==
    Bind(fetch_word(c), LAMBDA c1, absolute_address :
        Bind(read_byte(c1, absolute_address), LAMBDA c2, value :
            Ret(c2, set_negative_and_zero_flags([c2 EXCEPT !.a = BitAnd(c2.a, value)]))))

\* Cpu::anda_abs_x
anda_abs_x(c) ==
    Bind(fetch_word(c), LAMBDA c1, absolute_address :
        Bind(Arith(c1, absolute_address + c1.x, 65536), LAMBDA c2, effective_address :
            Bind(read_byte(c2, effective_address), LAMBDA c3, value :
                Ret(c3, set_negative_and_zero_flags([c3 EXCEPT !.a = BitAnd(c3.a, value)])))))

\* Cpu::anda_abs_y
anda_abs_y(c) ==
    Bind(fetch_word(c), LAMBDA c1, absolute_address :
        Bind(Arith(c1, absolute_address + c1.y, 65536), LAMBDA c2, effective_address :
            Bind(read_byte(c2, effective_address), LAMBDA c3, value :
                Ret(c3, set_negative_and_zero_flags([c3 EXCEPT !.a = BitAnd(c3.a, value)])))))

\* Cpu::anda_zp
anda_zp(c) ==
    Bind(fetch_byte(c), LAMBDA c1, address :
        Bind(read_byte(c1, address), LAMBDA c2, value :
            Ret(c2, set_negative_and_zero_flags([c2 EXCEPT !.a = BitAnd(c2.a, value)]))))

\* Cpu::anda_zp_x: the effective address is computed in u8
anda_zp_x(c) ==
    Bind(fetch_byte(c), LAMBDA c1, address :
        Bind(Arith(c1, address + c1.x, 256), LAMBDA c2, effective_address :
            Bind(read_byte(c2, effective_address), LAMBDA c3, value :
                Ret(c3, set_negative_and_zero_flags([c3 EXCEPT !.a = BitAnd(c3.a, value)])))))

\* Cpu::anda_zp_iy
anda_zp_iy(c) ==
    Bind(fetch_byte(c), LAMBDA c1, zero_page_address :
        Bind(read_word(c1, zero_page_address), LAMBDA c2, word :
            Bind(Arith(c2, word + c2.y, 65536), LAMBDA c3, indirect_address :
                Bind(read_byte(c3, indirect_address), LAMBDA c4, value :
                    Ret(c4, set_negative_and_zero_flags([c4 EXCEPT !.a = BitAnd(c4.a, value)]))))))

\* Cpu::anda_zp_xi
anda_zp_xi(c) ==
    Bind(fetch_byte(c), LAMBDA c1, address :
        Bind(Arith(c1, address + c1.x, 256), LAMBDA c2, indirect_address :
            Bind(read_word(c2, indirect_address), LAMBDA c3, effective_address :
                Bind(read_byte(c3, effective_address), LAMBDA c4, value :
                    Ret(c4, set_negative_and_zero_flags([c4 EXCEPT !.a = BitAnd(c4.a, value)]))))))

\* ------------------------------------------------------------------- ORA
\* Cpu::ora_im
ora_im(c) ==
    Bind(fetch_byte(c), LAMBDA c1, value :
        Ret(c1, set_negative_and_zero_flags([c1 EXCEPT !.a = BitOr(c1.a, value)])))

\* Cpu::ora_abs
ora_abs(c) ==
    Bind(fetch_word(c), LAMBDA c1, absolute_address :
        Bind(read_byte(c1, absolute_address), LAMBDA c2, value :
            Ret(c2, set_negative_and_zero_flags([c2 EXCEPT !.a = BitOr(c2.a, value)]))))

\* Cpu::ora_abs_x
ora_abs_x(c) ==
    Bind(fetch_word(c), LAMBDA c1, absolute_address :
        Bind(Arith(c1, absolute_address + c1.x, 65536), LAMBDA c2, effective_address :
            Bind(read_byte(c2, effective_address), LAMBDA c3, value :
                Ret(c3, set_negative_and_zero_flags([c3 EXCEPT !.a = BitOr(c3.a, value)])))))

\* Cpu::ora_abs_y
ora_abs_y(c) ==
    Bind(fetch_word(c), LAMBDA c1, absolute_address :
        Bind(Arith(c1, absolute_address + c1.y, 65536), LAMBDA c2, effective_address :
            Bind(read_byte(c2, effective_address), LAMBDA c3, value :
                Ret(c3, set_negative_and_zero_flags([c3 EXCEPT !.a = BitOr(c3.a, value)])))))

\* Cpu::ora_zp
ora_zp(c) ==
    Bind(fetch_byte(c), LAMBDA c1, address :
        Bind(read_byte(c1, address), LAMBDA c2, value :
            Ret(c2, set_negative_and_zero_flags([c2 EXCEPT !.a = BitOr(c2.a, value)]))))

\* Cpu::ora_zp_x: the effective address is computed in u8
ora_zp_x(c) ==
    Bind(fetch_byte(c), LAMBDA c1, address :
        Bind(Arith(c1, address + c1.x, 256), LAMBDA c2, effective_address :
            Bind(read_byte(c2, effective_address), LAMBDA c3, value :
                Ret(c3, set_negative_and_zero_flags([c3 EXCEPT !.a = BitOr(c3.a, value)])))))

\* Cpu::ora_zp_iy
ora_zp_iy(c) ==
    Bind(fetch_byte(c), LAMBDA c1, zero_page_address :
        Bind(read_word(c1, zero_page_address), LAMBDA c2, word :
            Bind(Arith(c2, word + c2.y, 65536), LAMBDA c3, indirect_address :
                Bind(read_byte(c3, indirect_address), LAMBDA c4, value :
                    Ret(c4, set_negative_and_zero_flags([c4 EXCEPT !.a = BitOr(c4.a, value)]))))))

\* Cpu::ora_zp_xi
ora_zp_xi(c) ==
    Bind(fetch_byte(c), LAMBDA c1, address :
        Bind(Arith(c1, address + c1.x, 256), LAMBDA c2, indirect_address :
            Bind(read_word(c2, indirect_address), LAMBDA c3, effective_address :
                Bind(read_byte(c3, effective_address), LAMBDA c4, value :
                    Ret(c4, set_negative_and_zero_flags([c4 EXCEPT !.a = BitOr(c4.a, value)]))))))

\* ------------------------------------------------------ logical shift right
\* the flags every memory-mode shift but lsr_zp_x sets
lsr_flags(c, data, carry) ==
    set_carry_flag([c EXCEPT !.ps = Set(Set(c.ps, N, FALSE), Z, data = 0)], carry > 0)

\* Cpu::lsr_acc
lsr_acc(c) ==
    Ret(c, set_carry_flag(set_negative_and_zero_flags([c EXCEPT !.a = c.a \div 2]),
                          (c.a % 2) > 0))

\* Cpu::lsr_abs
lsr_abs(c) ==
    Bind(fetch_word(c), LAMBDA c1, abs_address :
        Bind(read_byte(c1, abs_address), LAMBDA c2, data :
            Then(write_byte(c2, abs_address, data \div 2), LAMBDA c3 :
                Ret(c3, lsr_flags(c3, data \div 2, data % 2)))))

\* lsr_zp that shifts through the accumulator and leaves the result there
lsr_zp_through_accumulator(c) ==
    Bind(fetch_byte(c), LAMBDA c1, zero_page_address :
        Bind(read_byte(c1, zero_page_address), LAMBDA c2, data :
            Then(write_byte(c2, zero_page_address, data \div 2), LAMBDA c3 :
                Ret(c3, lsr_flags([c3 EXCEPT !.a = data \div 2], data \div 2, data % 2)))))

\* Cpu::lsr_zp
lsr_zp(c) ==
    Bind(fetch_byte(c), LAMBDA c1, zero_page_address :
        Bind(read_byte(c1, zero_page_address), LAMBDA c2, data :
            Then(write_byte(c2, zero_page_address, data \div 2), LAMBDA c3 :
                Ret(c3, lsr_flags(c3, data \div 2, data % 2)))))

\* Cpu::lsr_abs_x: the effective address is computed in usize
lsr_abs_x(c) ==
    Bind(fetch_word(c), LAMBDA c1, abs_address :
        LET effective_address == abs_address + c1.x
        IN  Bind(read_byte(c1, effective_address), LAMBDA c2, data :
                Then(write_byte(c2, effective_address, data \div 2), LAMBDA c3 :
                    Ret(c3, lsr_flags(c3, data \div 2, data % 2)))))

\* lsr_zp_x that writes the shifted byte back at the unindexed address
lsr_zp_x_unindexed_store(c) ==
    Bind(fetch_byte(c), LAMBDA c1, zero_page_address :
        LET effective_address == zero_page_address + c1.x
        IN  Bind(read_byte(c1, effective_address), LAMBDA c2, data :
                Then(write_byte(c2, zero_page_address, data \div 2), LAMBDA c3 :
                    Ret(c3, set_carry_flag(set_negative_and_zero_flags(c3),
                                           (data % 2) > 0)))))

\* Cpu::lsr_zp_x: usize address; Zero and Negative are set from the accumulator
lsr_zp_x(c) ==
    Bind(fetch_byte(c), LAMBDA c1, zero_page_address :
        LET effective_address == zero_page_address + c1.x
        IN  Bind(read_byte(c1, effective_address), LAMBDA c2, data :
                Then(write_byte(c2, effective_address, data \div 2), LAMBDA c3 :
                    Ret(c3, set_carry_flag(set_negative_and_zero_flags(c3),
                                           (data % 2) > 0)))))

\* ------------------------------------------------------------------ flags
\* SEC => self.set_carry_flag(true)
sec(c) == Ret(c, set_carry_flag(c, TRUE))

\* set_decimal_mode that sets the Decimal flag
set_decimal_flag(c) == Ret(c, [c EXCEPT !.ps = Set(c.ps, D, TRUE)])

\* Cpu::set_decimal_mode
set_decimal_mode(c) == {c}

\* Cpu::set_interrupt_disable
set_interrupt_disable(c) == Ret(c, [c EXCEPT !.ps = Set(c.ps, I, TRUE)])

\* ------------------------------------------------------------------ stack
\* pha with the decrement before the write
pha_predecrement(c) ==
    Then(dec_sp(c), LAMBDA c1 : write_byte(c1, c1.sp, c1.a))

\* Cpu::pha
pha(c) == Then(write_byte(c, c.sp, c.a), LAMBDA c1 : dec_sp(c1))

\* php that pushes the status with Break set
php_with_break(c) ==
    Then(write_byte(c, c.sp, BitOr(c.ps, B)), LAMBDA c1 : dec_sp(c1))

\* Cpu::php
php(c) == Then(write_byte(c, c.sp, c.ps), LAMBDA c1 : dec_sp(c1))

\* pla that reads the cell at sp before it raises sp
pla_reading_first(c) ==
    Bind(read_byte(c, c.sp), LAMBDA c1, data :
        Then(inc_sp(c1), LAMBDA c2 :
            Ret(c2, set_negative_and_zero_flags([c2 EXCEPT !.a = data]))))

\* Cpu::pla
pla(c) ==
    Then(inc_sp(c), LAMBDA c1 :
        Bind(read_byte(c1, c1.sp), LAMBDA c2, data :
            Ret(c2, set_negative_and_zero_flags([c2 EXCEPT !.a = data]))))

\* plp that keeps only the bits the hardware restores (not Break)
plp_without_break(c) ==
    Then(inc_sp(c), LAMBDA c1 :
        Bind(read_byte(c1, c1.sp), LAMBDA c2, bits :
            Ret(c2, [c2 EXCEPT !.ps = BitAnd(bits, AllFlags - B)])))

\* Cpu::plp
plp(c) ==
    Then(inc_sp(c), LAMBDA c1 :
        Bind(read_byte(c1, c1.sp), LAMBDA c2, bits :
            Ret(c2, [c2 EXCEPT !.ps = from_bits_truncate(bits)])))

\* -------------------------------------------------------------- transfers
\* a flag update that leaves Zero and Negative as they are
keep_flags_of(c, value) == c

\* the flag updates of transfer_a_to_x, transfer_a_to_y, transfer_sp_to_x
set_flags_of(c, value) ==
    [c EXCEPT !.ps = Set(Set(c.ps, Z, value = 0), N, BitAnd(value, 128) > 0)]

\* Cpu::transfer_a_to_x
transfer_a_to_x(c) ==
    LET d == [c EXCEPT !.x = c.a] IN Ret(c, set_flags_of(d, d.x))

\* Cpu::transfer_a_to_y
transfer_a_to_y(c) ==
    LET d == [c EXCEPT !.y = c.a] IN Ret(c, set_flags_of(d, d.y))

\* Cpu::transfer_sp_to_x: sp as u8
transfer_sp_to_x(c) ==
    LET d == [c EXCEPT !.x = c.sp % 256] IN Ret(c, set_flags_of(d, d.x))

\* Cpu::transfer_x_to_a
transfer_x_to_a(c) == Ret(c, set_negative_and_zero_flags([c EXCEPT !.a = c.x]))

\* transfer_x_to_sp that leaves the page byte out
transfer_x_to_sp_unpaged(c) == Ret(c, [c EXCEPT !.sp = c.x])

\* Cpu::transfer_x_to_sp
transfer_x_to_sp(c) == Ret(c, [c EXCEPT !.sp = 256 + c.x])

\* Cpu::transfer_y_to_a
transfer_y_to_a(c) == Ret(c, set_negative_and_zero_flags([c EXCEPT !.a = c.y]))

\* a NOP arm that does nothing and lets the loop go on
halt_and_go_on(c) == {c}

\* NOP => break
halt(c) == Ret(c, [c EXCEPT !.state = "Halted"])

\* Cpu::debug_print: the registers are printed, then the line "current
\* instruction", whose byte is the value returned here
debug_print(c) == read_byte(c, c.pc)

\* _ => { self.debug_print(); panic!("reason: unrecognized instruction") }
\* The value is what was printed as the current instruction: <<byte>>, or <<>>
\* when a panic came before the print.
unrecognized(c) ==
    IF ~Alive(c) THEN {<<c, <<>>>>}
    ELSE Bind(debug_print(c), LAMBDA c1, current : {<<Panic(c1), <<current>>>>})


\* reset that takes pc from the reset vector whatever its argument
reset_through_vector(c, address) ==
    LET c1 == [c EXCEPT !.pc = 65532, !.sp = 256, !.a = 0, !.x = 0, !.y = 0,
                        !.ps = 0, !.state = "Running"]
        c2s == IF address = <<>> THEN {c1}
               ELSE write_word(c1, c1.pc, address[1])
    IN  Then(c2s, LAMBDA c2 :
            Bind(read_word(c2, 65532), LAMBDA c3, word :
                Ret(c3, [c3 EXCEPT !.pc = word])))

\* reset that stores the entry address at the pc it finds, before it sets pc
reset_storing_at_old_pc(c, address) ==
    LET c1 == [c EXCEPT !.sp = 256, !.a = 0, !.x = 0, !.y = 0,
                        !.ps = 0, !.state = "Running"]
    IN  IF address = <<>> THEN {[c1 EXCEPT !.pc = 65532]}
        ELSE Then(write_word(c1, c1.pc, address[1]), LAMBDA c2 :
                Bind(read_word(c2, 65532), LAMBDA c3, word :
                    Ret(c3, [c3 EXCEPT !.pc = word])))

\* Cpu::reset; the Option<u16> argument is <<>> (None) or <<address>>
reset(c, address) ==
    LET c1 == [c EXCEPT !.pc = 65532, !.sp = 256, !.a = 0, !.x = 0, !.y = 0,
                        !.ps = 0, !.state = "Running"]
    IN  IF address = <<>> THEN {c1}
        ELSE Then(write_word(c1, c1.pc, address[1]), LAMBDA c2 :
                Bind(read_word(c2, 65532), LAMBDA c3, word :
                    Ret(c3, [c3 EXCEPT !.pc = word])))

\* ---------------------------------------------------------------- actions
\* Cpu::new(): every register zero, memory zeroed
New ==
    /\ pc = 0
    /\ sp = 0
    /\ a = 0
    /\ x = 0
    /\ y = 0
    /\ ps = 0
    /\ memory = [address \in {} |-> 0]
    /\ state = "Created"
    /\ image = [address \in {} |-> 0]
    /\ hist = <<>>

\* The engine after a call, and the call added to the history.
Commit(kind, op, arg, c) ==
    /\ pc' = c.pc
    /\ sp' = c.sp
    /\ a' = c.a
    /\ x' = c.x
    /\ y' = c.y
    /\ ps' = c.ps
    /\ memory' = c.memory
    /\ state' = c.state
    /\ image' = c.image
    /\ hist' = Append(hist, [kind |-> kind, op |-> op, arg |-> arg, pre |-> Cpu])
    /\ limit' = limit

\* execute is not running: reset takes &mut self
Init == New /\ limit = MaxSteps

InitStack == New /\ limit = MaxStackSteps

InitNest == New /\ limit = MaxNestSteps

InitPush == New /\ limit = MaxPushSteps

Idle ==
    \/ state \in {"Created", "Halted"}
    \/ hist # <<>> /\ hist[Len(hist)].kind = "reset"

Reset(address) ==
    /\ Idle
    /\ Len(hist) < limit
    /\ \E c \in reset(Cpu, address) : Commit("reset", 0, address, c)

\* cpu.execute() called on an engine that new() built and nothing has reset:
\* the loop starts with the registers of new()
Start ==
    /\ state = "Created"
    /\ Len(hist) < limit
    /\ Commit("execute", 0, <<>>, [Cpu EXCEPT !.state = "Running"])

\* The head of one iteration of the loop of Cpu::execute: the engines after
\* fetch_byte has returned the opcode op.
Fetched(op) ==
    UNION {{r[1] : r \in {q \in fetch_byte(c0) : q[2] = op}} :
               c0 \in Deposit(Cpu, pc, {op})}

\* The rest of the iteration: the arm of op has run and left one of results.
Execute(op, results) == \E c \in results : Commit("instr", op, <<>>, c)

\* execute is in its loop, within the bound on the calls
Running == state = "Running" /\ Len(hist) < limit

LdaIm ==
    /\ Running
    /\ \E c \in Fetched(LDA_IM) : Execute(LDA_IM, lda_immediate(c))
LdaAbs ==
    /\ Running
    /\ \E c \in Fetched(LDA_ABS) : Execute(LDA_ABS, lda_absolute(c))
LdaAbsX ==
    /\ Running
    /\ \E c \in Fetched(LDA_ABS_X) : Execute(LDA_ABS_X, lda_absolute_x_indexed(c))
LdaAbsY ==
    /\ Running
    /\ \E c \in Fetched(LDA_ABS_Y) : Execute(LDA_ABS_Y, lda_absolute_y_indexed(c))
LdaZp ==
    /\ Running
    /\ \E c \in Fetched(LDA_ZP) : Execute(LDA_ZP, lda_zp(c))
LdaZpX ==
    /\ Running
    /\ \E c \in Fetched(LDA_ZP_X) : Execute(LDA_ZP_X, lda_zp_x(c))
LdaZpXi ==
    /\ Running
    /\ \E c \in Fetched(LDA_ZP_XI) : Execute(LDA_ZP_XI, lda_x_indexed_zero_page_indirect(c))
LdaZpIy ==
    /\ Running
    /\ \E c \in Fetched(LDA_ZP_IY) : Execute(LDA_ZP_IY, lda_y_zero_page_indirect_indexed(c))
LdxIm ==
    /\ Running
    /\ \E c \in Fetched(LDX_IM) : Execute(LDX_IM, ldx_immediate(c))
LdxAbs ==
    /\ Running
    /\ \E c \in Fetched(LDX_ABS) : Execute(LDX_ABS, ldx_absolute(c))
LdxZp ==
    /\ Running
    /\ \E c \in Fetched(LDX_ZP) : Execute(LDX_ZP, ldx_zp(c))
LdxZpY ==
    /\ Running
    /\ \E c \in Fetched(LDX_ZP_Y) : Execute(LDX_ZP_Y, ldx_y_indexed_zero_page(c))
LdxAbsY ==
    /\ Running
    /\ \E c \in Fetched(LDX_ABS_Y) : Execute(LDX_ABS_Y, ldx_absolute_y_indexed(c))
LdyIm ==
    /\ Running
    /\ \E c \in Fetched(LDY_IM) : Execute(LDY_IM, ldy_immediate(c))
LdyAbs ==
    /\ Running
    /\ \E c \in Fetched(LDY_ABS) : Execute(LDY_ABS, ldy_absolute(c))
LdyZp ==
    /\ Running
    /\ \E c \in Fetched(LDY_ZP) : Execute(LDY_ZP, ldy_zp(c))
LdyZpX ==
    /\ Running
    /\ \E c \in Fetched(LDY_ZP_X) : Execute(LDY_ZP_X, ldy_x_indexed_zero_page(c))
LdyAbsX ==
    /\ Running
    /\ \E c \in Fetched(LDY_ABS_X) : Execute(LDY_ABS_X, ldy_absolute_x_indexed(c))
LsrAcc ==
    /\ Running
    /\ \E c \in Fetched(LSR_ACC) : Execute(LSR_ACC, lsr_acc(c))
LsrAbs ==
    /\ Running
    /\ \E c \in Fetched(LSR_ABS) : Execute(LSR_ABS, lsr_abs(c))
LsrZp ==
    /\ Running
    /\ \E c \in Fetched(LSR_ZP) : Execute(LSR_ZP, lsr_zp(c))
LsrAbsX ==
    /\ Running
    /\ \E c \in Fetched(LSR_ABS_X) : Execute(LSR_ABS_X, lsr_abs_x(c))
LsrZpX ==
    /\ Running
    /\ \E c \in Fetched(LSR_ZP_X) : Execute(LSR_ZP_X, lsr_zp_x(c))
Pha ==
    /\ Running
    /\ \E c \in Fetched(PHA) : Execute(PHA, pha(c))
Php ==
    /\ Running
    /\ \E c \in Fetched(PHP) : Execute(PHP, php(c))
Pla ==
    /\ Running
    /\ \E c \in Fetched(PLA) : Execute(PLA, pla(c))
Plp ==
    /\ Running
    /\ \E c \in Fetched(PLP) : Execute(PLP, plp(c))
JmpAbs ==
    /\ Running
    /\ \E c \in Fetched(JMP_ABS) : Execute(JMP_ABS, jump_absolute(c))
JmpAbsInd ==
    /\ Running
    /\ \E c \in Fetched(JMP_ABS_IND) : Execute(JMP_ABS_IND, jump_absolute_indirect(c))
Jsr ==
    /\ Running
    /\ \E c \in Fetched(JSR) : Execute(JSR, jump_subroutine(c))
Rts ==
    /\ Running
    /\ \E c \in Fetched(RTS) : Execute(RTS, return_subroutine(c))
AndaIm ==
    /\ Running
    /\ \E c \in Fetched(ANDA_IM) : Execute(ANDA_IM, anda_im(c))
AndaAbs ==
    /\ Running
    /\ \E c \in Fetched(ANDA_ABS) : Execute(ANDA_ABS, anda_abs(c))
AndaAbsX ==
    /\ Running
    /\ \E c \in Fetched(ANDA_X_ABS) : Execute(ANDA_X_ABS, anda_abs_x(c))
AndaAbsY ==
    /\ Running
    /\ \E c \in Fetched(ANDA_Y_ABS) : Execute(ANDA_Y_ABS, anda_abs_y(c))
AndaZp ==
    /\ Running
    /\ \E c \in Fetched(ANDA_ZP) : Execute(ANDA_ZP, anda_zp(c))
AndaZpX ==
    /\ Running
    /\ \E c \in Fetched(ANDA_ZP_X) : Execute(ANDA_ZP_X, anda_zp_x(c))
AndaZpIy ==
    /\ Running
    /\ \E c \in Fetched(ANDA_ZP_IY) : Execute(ANDA_ZP_IY, anda_zp_iy(c))
AndaZpXi ==
    /\ Running
    /\ \E c \in Fetched(ANDA_ZP_XI) : Execute(ANDA_ZP_XI, anda_zp_xi(c))
OraIm ==
    /\ Running
    /\ \E c \in Fetched(ORA_IM) : Execute(ORA_IM, ora_im(c))
OraAbs ==
    /\ Running
    /\ \E c \in Fetched(ORA_ABS) : Execute(ORA_ABS, ora_abs(c))
OraAbsX ==
    /\ Running
    /\ \E c \in Fetched(ORA_X_ABS) : Execute(ORA_X_ABS, ora_abs_x(c))
OraAbsY ==
    /\ Running
    /\ \E c \in Fetched(ORA_Y_ABS) : Execute(ORA_Y_ABS, ora_abs_y(c))
OraZp ==
    /\ Running
    /\ \E c \in Fetched(ORA_ZP) : Execute(ORA_ZP, ora_zp(c))
OraZpX ==
    /\ Running
    /\ \E c \in Fetched(ORA_ZP_X) : Execute(ORA_ZP_X, ora_zp_x(c))
OraZpIy ==
    /\ Running
    /\ \E c \in Fetched(ORA_ZP_IY) : Execute(ORA_ZP_IY, ora_zp_iy(c))
OraZpXi ==
    /\ Running
    /\ \E c \in Fetched(ORA_ZP_XI) : Execute(ORA_ZP_XI, ora_zp_xi(c))
Tax ==
    /\ Running
    /\ \E c \in Fetched(TAX) : Execute(TAX, transfer_a_to_x(c))
Tay ==
    /\ Running
    /\ \E c \in Fetched(TAY) : Execute(TAY, transfer_a_to_y(c))
Tsx ==
    /\ Running
    /\ \E c \in Fetched(TSX) : Execute(TSX, transfer_sp_to_x(c))
Txa ==
    /\ Running
    /\ \E c \in Fetched(TXA) : Execute(TXA, transfer_x_to_a(c))
Txs ==
    /\ Running
    /\ \E c \in Fetched(TXS) : Execute(TXS, transfer_x_to_sp(c))
Tya ==
    /\ Running
    /\ \E c \in Fetched(TYA) : Execute(TYA, transfer_y_to_a(c))
Sec ==
    /\ Running
    /\ \E c \in Fetched(SEC) : Execute(SEC, sec(c))
Sed ==
    /\ Running
    /\ \E c \in Fetched(SED) : Execute(SED, set_decimal_mode(c))
Sei ==
    /\ Running
    /\ \E c \in Fetched(SEI) : Execute(SEI, set_interrupt_disable(c))
Nop ==
    /\ Running
    /\ \E c \in Fetched(NOP) : Execute(NOP, halt(c))

\* ---------------------------------------- the status register, used alone
\* A ProcessorStatus built from any byte: new() and the flags give it any
\* subset of the seven flags.
InitStatus ==
    /\ pc = 0
    /\ sp = 0
    /\ a = 0
    /\ x = 0
    /\ y = 0
    /\ ps \in {from_bits_truncate(bits) : bits \in 0..255}
    /\ memory = [address \in {} |-> 0]
    /\ state = "Created"
    /\ image = [address \in {} |-> 0]
    /\ hist = <<>>
    /\ limit = MaxSteps

\* format!("{ps}"); the string is kept with the call
Show ==
    /\ Len(hist) < limit
    /\ Commit("display", 0, Display(ps), Cpu)

\* ps.clear()
StatusClear ==
    /\ Len(hist) < limit
    /\ Commit("clear", 0, <<>>, [Cpu EXCEPT !.ps = clear(ps)])

\* ------------------------------------------------- the memory, used alone
\* Addresses and words a caller hands to Memory::write_word and read_word.
WordAddrs == {0, 255, 65534, 65535}

Words == {1, 4660, 65280}

\* cpu.memory.write_word(address, data), called from outside the engine
WriteWord ==
    /\ Alive(Cpu)
    /\ Len(hist) < limit
    /\ \E address \in WordAddrs : \E data \in Words :
           \E c \in write_word(Cpu, address, data) :
               Commit("write_word", 0, <<address, data>>, c)

\* cpu.memory.read_word(address); the word returned is kept with the call
ReadWord ==
    /\ Alive(Cpu)
    /\ Len(hist) < limit
    /\ \E address \in WordAddrs : \E r \in read_word(Cpu, address) :
           Commit("read_word", 0, <<address, r[2]>>, r[1])

\* The opcodes of the match arms of Cpu::execute.
Dispatched ==
    {LDA_IM, LDA_ABS, LDA_ABS_X, LDA_ABS_Y, LDA_ZP, LDA_ZP_X, LDA_ZP_XI,
     LDA_ZP_IY, LDX_IM, LDX_ABS, LDX_ZP, LDX_ZP_Y, LDX_ABS_Y, LDY_IM, LDY_ABS,
     LDY_ZP, LDY_ZP_X, LDY_ABS_X, LSR_ACC, LSR_ABS, LSR_ZP, LSR_ABS_X,
     LSR_ZP_X, PHA, PHP, PLA, PLP, JMP_ABS, JMP_ABS_IND, JSR, RTS, ANDA_IM,
     ANDA_ABS, ANDA_X_ABS, ANDA_Y_ABS, ANDA_ZP, ANDA_ZP_X, ANDA_ZP_IY,
     ANDA_ZP_XI, ORA_IM, ORA_ABS, ORA_X_ABS, ORA_Y_ABS, ORA_ZP, ORA_ZP_X,
     ORA_ZP_IY, ORA_ZP_XI, TAX, TAY, TSX, TXA, TXS, TYA, SEC, SED, SEI, NOP}

\* Opcode bytes that reach the `_` arm.
UnknownOps == {0, 2, 255} \ Dispatched

Unknown ==
    /\ Running
    /\ \E op \in UnknownOps : \E c \in Fetched(op) :
           \E r \in unrecognized(c) : Commit("instr", op, r[2], r[1])

\* Entry addresses handed to reset by a caller that resets the engine again.
ResetAddrs == {16, 4660}

\* The reset calls: reset(None) and reset(Some(entry)).
ResetNone == Reset(<<>>)

ResetTo == \E address \in ResetAddrs : Reset(<<address>>)

Resets == \E address \in {<<>>} \cup {<<e>> : e \in EntryAddrs} : Reset(address)

\* -------------------------------------------------------- specifications
\* Programs made of the stack, call and return instructions, with the
\* instructions that give A, X and Carry a value.
NextStack ==
    \/ Resets
    \/ Pha
    \/ Php
    \/ Pla
    \/ Plp
    \/ Jsr
    \/ Rts
    \/ Txs
    \/ LdaIm
    \/ LdxIm
    \/ Sec
    \/ Nop

SpecStack == InitStack /\ [][NextStack]_vars

\* Programs made of the load instructions.
NextLoad ==
    \/ Resets
    \/ LdaIm
    \/ LdaAbs
    \/ LdaAbsX
    \/ LdaAbsY
    \/ LdaZp
    \/ LdaZpX
    \/ LdaZpXi
    \/ LdaZpIy
    \/ LdxIm
    \/ LdxAbs
    \/ LdxZp
    \/ LdxZpY
    \/ LdxAbsY
    \/ LdyIm
    \/ LdyAbs
    \/ LdyZp
    \/ LdyZpX
    \/ LdyAbsX

SpecLoad == Init /\ [][NextLoad]_vars

\* Programs made of the instructions whose destination is the accumulator,
\* with the immediate loads that give X and Y a value.
NextAcc ==
    \/ Resets
    \/ LdaIm
    \/ LdaAbs
    \/ LdaAbsX
    \/ LdaAbsY
    \/ LdaZp
    \/ LdaZpX
    \/ LdaZpXi
    \/ LdaZpIy
    \/ AndaIm
    \/ AndaAbs
    \/ AndaAbsX
    \/ AndaAbsY
    \/ AndaZp
    \/ AndaZpX
    \/ AndaZpIy
    \/ AndaZpXi
    \/ OraIm
    \/ OraAbs
    \/ OraAbsX
    \/ OraAbsY
    \/ OraZp
    \/ OraZpX
    \/ OraZpIy
    \/ OraZpXi
    \/ Pla
    \/ Txa
    \/ Tya
    \/ LdxIm
    \/ LdyIm

SpecAcc == Init /\ [][NextAcc]_vars

\* Programs made of the push and pull instructions, with the instructions
\* that give A, X, Carry and sp a value.
NextPush ==
    \/ Resets
    \/ Pha
    \/ Php
    \/ Pla
    \/ Plp
    \/ Txs
    \/ LdaIm
    \/ LdxIm
    \/ Sec

SpecPush == InitPush /\ [][NextPush]_vars

\* Programs made of the jumps and the call, with the instructions that give
\* A, X and sp a value.
NextJump ==
    \/ Resets
    \/ JmpAbs
    \/ JmpAbsInd
    \/ Jsr
    \/ Txs
    \/ LdaIm
    \/ LdxIm
    \/ Nop

SpecJump == InitStack /\ [][NextJump]_vars

\* Programs made of the shifts and the absolute-indexed instructions, with
\* the immediate loads that give A, X and Y a value.
NextShift ==
    \/ Resets
    \/ LsrAcc
    \/ LsrAbs
    \/ LsrZp
    \/ LsrAbsX
    \/ LsrZpX
    \/ LdaAbsX
    \/ LdaAbsY
    \/ LdxAbsY
    \/ LdyAbsX
    \/ AndaAbsX
    \/ AndaAbsY
    \/ OraAbsX
    \/ OraAbsY
    \/ LdaIm
    \/ LdxIm
    \/ LdyIm

SpecShift == Init /\ [][NextShift]_vars

\* Programs that are reset, run to a halt or to an unknown opcode, and are
\* reset again.
NextReset ==
    \/ ResetNone
    \/ ResetTo
    \/ LdaIm
    \/ LdxIm
    \/ Pha
    \/ Sec
    \/ Nop
    \/ Unknown

SpecReset == InitPush /\ [][NextReset]_vars

\* Programs made of the register transfers, the flag instructions and the
\* absolute jump, with the instructions that give A, X, Y and sp a value.
NextRegs ==
    \/ Resets
    \/ Tax
    \/ Tay
    \/ Tsx
    \/ Txa
    \/ Txs
    \/ Tya
    \/ Sec
    \/ Sed
    \/ Sei
    \/ JmpAbs
    \/ Pha
    \/ LdaIm
    \/ LdxIm
    \/ LdyIm

SpecRegs == InitStack /\ [][NextRegs]_vars

\* A caller that writes and reads words of the memory of an engine it resets
\* but does not run.
NextMemory ==
    \/ ResetNone
    \/ WriteWord
    \/ ReadWord

SpecMemory == Init /\ [][NextMemory]_vars

\* A caller that renders and clears a status register.
NextStatus ==
    \/ Show
    \/ StatusClear

SpecStatus == InitStatus /\ [][NextStatus]_vars

\* Programs of pushes run by an engine that was never reset, with the
\* instructions that give A and Carry a value.
NextFresh ==
    \/ Start
    \/ Pha
    \/ Php
    \/ LdaIm
    \/ Sec

SpecFresh == InitStack /\ [][NextFresh]_vars

\* Programs of any two instructions of the dispatch table of Cpu::execute.
NextAll ==
    \/ Resets
    \/ LdaIm
    \/ LdaAbs
    \/ LdaAbsX
    \/ LdaAbsY
    \/ LdaZp
    \/ LdaZpX
    \/ LdaZpXi
    \/ LdaZpIy
    \/ LdxIm
    \/ LdxAbs
    \/ LdxZp
    \/ LdxZpY
    \/ LdxAbsY
    \/ LdyIm
    \/ LdyAbs
    \/ LdyZp
    \/ LdyZpX
    \/ LdyAbsX
    \/ LsrAcc
    \/ LsrAbs
    \/ LsrZp
    \/ LsrAbsX
    \/ LsrZpX
    \/ Pha
    \/ Php
    \/ Pla
    \/ Plp
    \/ JmpAbs
    \/ JmpAbsInd
    \/ Jsr
    \/ Rts
    \/ AndaIm
    \/ AndaAbs
    \/ AndaAbsX
    \/ AndaAbsY
    \/ AndaZp
    \/ AndaZpX
    \/ AndaZpIy
    \/ AndaZpXi
    \/ OraIm
    \/ OraAbs
    \/ OraAbsX
    \/ OraAbsY
    \/ OraZp
    \/ OraZpX
    \/ OraZpIy
    \/ OraZpXi
    \/ Tax
    \/ Tay
    \/ Tsx
    \/ Txa
    \/ Txs
    \/ Tya
    \/ Sec
    \/ Sed
    \/ Sei
    \/ Nop

SpecAll == Init /\ [][NextAll]_vars

\* Programs that push twice and pull twice, or push, call, return and pull,
\* with the load that gives A a value.
NextNest ==
    \/ ResetNone
    \/ ResetTo
    \/ Pha
    \/ Pla
    \/ Jsr
    \/ Rts
    \/ LdaIm

SpecNest == InitNest /\ [][NextNest]_vars

\* Straight-line programs ended by NOP: every instruction but the last of a
\* run is no jump, call or return, and the last is NOP. The loop of execute
\* goes on as long as it can.
NextLine ==
    \/ Len(hist) + 1 < limit /\ ResetTo
    \/ Len(hist) + 1 < limit /\ LdaIm
    \/ Len(hist) + 1 < limit /\ LdxIm
    \/ Len(hist) + 1 < limit /\ Sec
    \/ Len(hist) + 1 < limit /\ Pha
    \/ Len(hist) + 1 < limit /\ AndaZpX
    \/ Nop

SpecLine == InitStack /\ [][NextLine]_vars /\ WF_vars(NextLine)

\* ------------------------------------------------------------ the history
Calls == 1..Len(hist)

\* The engine after call i.
Post(i) == IF i < Len(hist) THEN hist[i + 1].pre ELSE Cpu

\* Call i is the instruction op, and its handler returned (no panic).
Ran(i, op) ==
    /\ i \in Calls
    /\ hist[i].kind = "instr"
    /\ hist[i].op = op
    /\ Post(i).state = "Running"

\* Call i is one of the instructions ops, and its handler returned.
RanOneOf(i, ops) == \E op \in ops : Ran(i, op)

\* Cell address of m is settled and holds value.
Holds(m, address, value) == address \in DOMAIN m /\ m[address] = value

\* The operand bytes of the instruction of call i: the cells after its opcode,
\* as read from the memory after the call.
Operand(i, k) ==
    LET address == (hist[i].pre.pc + k) % 65536
        m == Post(i).memory
    IN  IF address \in DOMAIN m THEN m[address] ELSE 0

OperandWord(i) == Operand(i, 1) + 256 * Operand(i, 2)

\* The byte at address in the memory after call i, and whether it is settled.
Settled(i, address) == address \in DOMAIN Post(i).memory

ByteAt(i, address) ==
    IF Settled(i, address) THEN Post(i).memory[address] ELSE 0

\* ------------------------------------------------------------- the claims

\* C1: a JSR whose target holds an RTS, executed and then returned from,
\* leaves pc at the address of the JSR + 3 and sp at its value before the JSR.
C1_SubroutineRoundTrip ==
    \A i \in Calls :
        (Ran(i, JSR) /\ Ran(i + 1, RTS) /\ hist[i].pre.pc + 3 < 65536)
            => /\ Post(i + 1).pc = hist[i].pre.pc + 3
               /\ Post(i + 1).sp = hist[i].pre.sp

\* Instructions that leave sp and the stack cells alone.
NoStackOps == {LDA_IM, LDX_IM, SEC}

\* C7: PHA, then instructions that do not touch the stack, then PLA: A and sp
\* are what they were before the PHA.
C7_AccumulatorRoundTrip ==
    \A i \in Calls : \A j \in Calls :
        (/\ i < j
         /\ Ran(i, PHA)
         /\ Ran(j, PLA)
         /\ \A k \in (i + 1)..(j - 1) : RanOneOf(k, NoStackOps))
            => /\ Post(j).a = hist[i].pre.a
               /\ Post(j).sp = hist[i].pre.sp

\* A = 0xFF is pushed, A is loaded with 0, and the pull has just run.
C7_Witness ==
    \E i \in Calls :
        /\ i + 2 = Len(hist)
        /\ Ran(i, PHA)
        /\ Ran(i + 1, LDA_IM)
        /\ Ran(i + 2, PLA)
        /\ hist[i].pre.a = 255
        /\ hist[i + 2].pre.a = 0
        /\ a = 255

\* C8: PHP followed by PLP leaves the status register and sp as they were
\* before the PHP.
C8_StatusRoundTrip ==
    \A i \in Calls :
        (Ran(i, PHP) /\ Ran(i + 1, PLP))
            => /\ Post(i + 1).ps = hist[i].pre.ps
               /\ Post(i + 1).sp = hist[i].pre.sp

\* Negative and Carry are set, the status is pushed and has just been pulled.
C8_Witness ==
    \E i \in Calls :
        /\ i + 1 = Len(hist)
        /\ Ran(i, PHP)
        /\ Ran(i + 1, PLP)
        /\ Contains(hist[i].pre.ps, N)
        /\ Contains(hist[i].pre.ps, C)
        /\ Contains(ps, N)
        /\ Contains(ps, C)

\* The byte in the stack slot a PLP (call i) read: the cell at the sp it left.
Pulled(i) == ByteAt(i, Post(i).sp)

\* C9 as claimed: after PLP the raw status bits are the byte pulled, whatever
\* the byte.
C9_RawBitsRestored ==
    \A i \in Calls :
        Ran(i, PLP) => (Settled(i, Post(i).sp) /\ Post(i).ps = Pulled(i))

\* C9 amended: after PLP the raw status bits are the byte pulled with bit 5
\* (0x20, which is no flag) cleared; the seven flag bits are those of the byte.
C9_FlagBitsRestored ==
    \A i \in Calls :
        Ran(i, PLP) =>
            /\ Settled(i, Post(i).sp)
            /\ Post(i).ps = Pulled(i) - 32 * Bit(Pulled(i), 5)

\* A PLP has just pulled the byte 0xFF.
C9_Witness ==
    /\ Ran(Len(hist), PLP)
    /\ Pulled(Len(hist)) = 255
    /\ ps = 223

\* C10: once reset, sp stays in the stack page 0x0100..0x01FF.
C10_StackConfinement == state # "Created" => (sp >= 256 /\ sp <= 511)

\* The opcodes of the loads, by destination and by addressing mode.
LdaOps ==
    {LDA_IM, LDA_ABS, LDA_ABS_X, LDA_ABS_Y, LDA_ZP, LDA_ZP_X, LDA_ZP_XI, LDA_ZP_IY}

LdxOps == {LDX_IM, LDX_ABS, LDX_ABS_Y, LDX_ZP, LDX_ZP_Y}

LdyOps == {LDY_IM, LDY_ABS, LDY_ABS_X, LDY_ZP, LDY_ZP_X}

\* The register a load (call i) wrote, after the call.
Dest(i) ==
    IF hist[i].op \in LdaOps THEN Post(i).a
    ELSE IF hist[i].op \in LdxOps THEN Post(i).x
    ELSE Post(i).y

\* The little-endian word in the cells address, address + 1 after call i.
WordAt(i, address) == ByteAt(i, address) + 256 * ByteAt(i, address + 1)

\* The effective address of the load of call i, as the addressing-mode table
\* gives it, for the modes of C2 other than immediate.
EffectiveAddress(i) ==
    LET op == hist[i].op
        pre == hist[i].pre
    IN  CASE op \in {LDA_ZP, LDX_ZP, LDY_ZP} -> Operand(i, 1)
          [] op \in {LDA_ABS, LDX_ABS, LDY_ABS} -> OperandWord(i)
          [] op \in {LDA_ABS_X, LDY_ABS_X} -> OperandWord(i) + pre.x
          [] op \in {LDA_ABS_Y, LDX_ABS_Y} -> OperandWord(i) + pre.y
          [] op = LDA_ZP_IY -> WordAt(i, Operand(i, 1)) + pre.y

\* C2: after a load in immediate mode the destination is the operand; after a
\* load in zero-page, absolute, absolute-indexed or (LDA) zero-page-indirect
\* Y-indexed mode whose address sum is within 0xFFFF, it is the byte at the
\* effective address.
C2_LoadValue ==
    \A i \in Calls :
        /\ RanOneOf(i, {LDA_IM, LDX_IM, LDY_IM}) => Dest(i) = Operand(i, 1)
        /\ (/\ RanOneOf(i, {LDA_ZP, LDX_ZP, LDY_ZP, LDA_ABS, LDX_ABS, LDY_ABS,
                            LDA_ABS_X, LDY_ABS_X, LDA_ABS_Y, LDX_ABS_Y, LDA_ZP_IY})
            /\ EffectiveAddress(i) < 65536)
              => /\ Settled(i, EffectiveAddress(i))
                 /\ Dest(i) = ByteAt(i, EffectiveAddress(i))

\* LDA (zp),Y has just run with Y = 1 and loaded the non-zero byte found one
\* past the pointer.
C2_Witness ==
    /\ Ran(Len(hist), LDA_ZP_IY)
    /\ hist[Len(hist)].pre.y = 1
    /\ a = 255
    /\ ByteAt(Len(hist), WordAt(Len(hist), Operand(Len(hist), 1))) # 255

Negative(bits) == Contains(bits, N)

Zero(bits) == Contains(bits, Z)

\* C3: after LDX (LDY), Zero is set iff X (Y) is 0 and Negative iff bit 7 of
\* X (Y) is 1.
C3_IndexLoadFlags ==
    \A i \in Calls :
        RanOneOf(i, LdxOps \cup LdyOps)
            => /\ Zero(Post(i).ps) <=> Dest(i) = 0
               /\ Negative(Post(i).ps) <=> Dest(i) >= 128

\* The index register a zero-page indexed load uses.
ZpIndex(i) ==
    IF hist[i].op = LDX_ZP_Y THEN hist[i].pre.y ELSE hist[i].pre.x

\* C4: after a zero-page indexed load the destination is the byte at
\* (operand + index).  A cell the engine has not read holds the constructor's 0.
C4_ZeroPageIndexedLoad ==
    \A i \in Calls :
        RanOneOf(i, {LDA_ZP_X, LDX_ZP_Y, LDY_ZP_X})
            => Dest(i) = ByteAt(i, Operand(i, 1) + ZpIndex(i))

\* C5: after LDA (zp,X), A is the byte at the address named by the pointer
\* word at (operand + X), the sum taken in u8 as AND and ORA take it.
C5_IndexedIndirectLoad ==
    \A i \in Calls :
        Ran(i, LDA_ZP_XI)
            => Post(i).a =
                   ByteAt(i, WordAt(i, (Operand(i, 1) + hist[i].pre.x) % 256))

\* The opcodes of the instructions whose destination is the accumulator.
AccOps ==
    LdaOps \cup
    {ANDA_IM, ANDA_ABS, ANDA_X_ABS, ANDA_Y_ABS, ANDA_ZP, ANDA_ZP_X, ANDA_ZP_XI,
     ANDA_ZP_IY, ORA_IM, ORA_ABS, ORA_X_ABS, ORA_Y_ABS, ORA_ZP, ORA_ZP_X,
     ORA_ZP_XI, ORA_ZP_IY, PLA, TXA, TYA}

\* C6: after an instruction whose destination is A, Zero is set iff A = 0 and
\* Negative iff bit 7 of A is 1, whatever the flags were before.
C6_AccumulatorFlags ==
    \A i \in Calls :
        RanOneOf(i, AccOps)
            => /\ Zero(Post(i).ps) <=> Post(i).a = 0
               /\ Negative(Post(i).ps) <=> Post(i).a >= 128

\* Zero was set and Negative clear; an instruction has just left a negative
\* value in A, and Zero is now clear and Negative set.
C6_Witness ==
    /\ RanOneOf(Len(hist), AccOps)
    /\ Zero(hist[Len(hist)].pre.ps)
    /\ ~Negative(hist[Len(hist)].pre.ps)
    /\ a >= 128
    /\ ~Zero(ps)
    /\ Negative(ps)

\* The byte the cell address held before call i: its settled content or, for
\* a cell call i was the first to read, the loader's byte.
Before(i, address) ==
    IF address \in DOMAIN hist[i].pre.memory THEN hist[i].pre.memory[address]
    ELSE IF address \in DOMAIN Post(i).image THEN Post(i).image[address]
    ELSE 0

\* The cell address is settled once call i has run.
Known(i, address) ==
    address \in DOMAIN hist[i].pre.memory \/ address \in DOMAIN Post(i).image

\* Byte k of the instruction of call i (0 is the opcode), before the call.
Code(i, k) == Before(i, (hist[i].pre.pc + k) % 65536)

CodeWord(i) == Code(i, 1) + 256 * Code(i, 2)

\* The cell an indirect jump through the pointer at p takes its high byte from.
HighByteCell(p) == IF p % 256 = 255 THEN p - 255 ELSE p + 1

\* C11: after JMP indirect through the pointer at p, pc is the word whose low
\* byte is memory[p] and whose high byte is memory[p + 1], or memory[p AND
\* 0xFF00] when the low byte of p is 0xFF.
C11_IndirectJumpPageWrap ==
    \A i \in Calls :
        Ran(i, JMP_ABS_IND)
            => /\ Known(i, CodeWord(i))
               /\ Known(i, HighByteCell(CodeWord(i)))
               /\ Post(i).pc = Before(i, CodeWord(i))
                                + 256 * Before(i, HighByteCell(CodeWord(i)))

\* A JMP indirect through the pointer at 0x00FF has just taken its high byte,
\* 0xFF, from 0x0000.
C11_Witness ==
    /\ Ran(Len(hist), JMP_ABS_IND)
    /\ CodeWord(Len(hist)) = 255
    /\ Known(Len(hist), 0)
    /\ Before(Len(hist), 0) = 255
    /\ ~Known(Len(hist), 256)
    /\ pc \div 256 = 255

\* The opcodes of the absolute-indexed instructions, by index register.
AbsXOps == {LDA_ABS_X, LDY_ABS_X, ANDA_X_ABS, ORA_X_ABS, LSR_ABS_X}

AbsYOps == {LDA_ABS_Y, LDX_ABS_Y, ANDA_Y_ABS, ORA_Y_ABS}

\* The index an absolute-indexed instruction (call i) adds to its operand.
AbsIndex(i) ==
    IF hist[i].op \in AbsXOps THEN hist[i].pre.x ELSE hist[i].pre.y

\* C12: an absolute-indexed instruction whose three bytes lie within memory
\* completes without a fault, and the cell it accesses is
\* (operand + index) mod 65536, also when operand + index exceeds 0xFFFF.
C12_AbsoluteIndexedWraps ==
    \A i \in Calls :
        (/\ hist[i].kind = "instr"
         /\ hist[i].op \in AbsXOps \cup AbsYOps
         /\ hist[i].pre.pc + 3 < 65536)
            => /\ Post(i).state = "Running"
               /\ Known(i, (CodeWord(i) + AbsIndex(i)) % 65536)

\* The opcodes of the shifts.
LsrOps == {LSR_ACC, LSR_ZP, LSR_ZP_X, LSR_ABS, LSR_ABS_X}

\* The memory cell a shift in a memory mode (call i) operates on.
ShiftCell(i) ==
    LET op == hist[i].op
    IN  CASE op = LSR_ZP -> Code(i, 1)
          [] op = LSR_ZP_X -> Code(i, 1) + hist[i].pre.x
          [] op = LSR_ABS -> CodeWord(i)
          [] op = LSR_ABS_X -> CodeWord(i) + hist[i].pre.x
          [] OTHER -> 0

\* The operand of the shift of call i before the call, and after it.
ShiftOperand(i) ==
    IF hist[i].op = LSR_ACC THEN hist[i].pre.a ELSE Before(i, ShiftCell(i))

ShiftResult(i) ==
    IF hist[i].op = LSR_ACC THEN Post(i).a ELSE ByteAt(i, ShiftCell(i))

\* C13: after LSR in any mode Negative is clear, and Zero is set iff the
\* shifted result is 0, whatever the accumulator holds when the operand is
\* in memory.
C13_ShiftFlags ==
    \A i \in Calls :
        RanOneOf(i, LsrOps)
            => /\ ~Negative(Post(i).ps)
               /\ Zero(Post(i).ps) <=> ShiftResult(i) = 0

\* C14: LSR in any mode replaces its operand by the old value shifted right
\* by one bit, and sets Carry to bit 0 of the old value.
C14_ShiftValue ==
    \A i \in Calls :
        RanOneOf(i, LsrOps)
            => /\ hist[i].op # LSR_ACC => Settled(i, ShiftCell(i))
               /\ ShiftResult(i) = ShiftOperand(i) \div 2
               /\ Contains(Post(i).ps, C) <=> ShiftOperand(i) % 2 = 1

\* LSR zp,X with X = 1 has just shifted a cell that held 0xFF: the cell holds
\* 0x7F and Carry is set.
C14_Witness ==
    /\ Ran(Len(hist), LSR_ZP_X)
    /\ hist[Len(hist)].pre.x = 1
    /\ ~Contains(hist[Len(hist)].pre.ps, C)
    /\ ShiftOperand(Len(hist)) = 255
    /\ ShiftResult(Len(hist)) = 127
    /\ Contains(ps, C)

\* Call i wrote no cell: every settled cell holds what it held before the call.
SameMemory(i) ==
    \A address \in DOMAIN Post(i).memory :
        Post(i).memory[address] = Before(i, address)

\* Call i left sp, a, x, y and the flags as they were.
SameRegisters(i) ==
    /\ Post(i).sp = hist[i].pre.sp
    /\ Post(i).a = hist[i].pre.a
    /\ Post(i).x = hist[i].pre.x
    /\ Post(i).y = hist[i].pre.y
    /\ Post(i).ps = hist[i].pre.ps

\* C15: an opcode byte outside the dispatch table (fetched below 0xFFFF) ends
\* execution in a fault that reports that opcode; sp, a, x, y, the flags and
\* memory are unchanged and pc is one more than before.
C15_UnknownOpcode ==
    \A i \in Calls :
        (/\ hist[i].kind = "instr"
         /\ hist[i].op \in UnknownOps
         /\ hist[i].pre.pc + 1 < 65536)
            => /\ Post(i).state = "Fault"
               /\ hist[i].arg = <<hist[i].op>>
               /\ Post(i).pc = hist[i].pre.pc + 1
               /\ SameRegisters(i)
               /\ SameMemory(i)

\* The opcodes of the instructions that assign pc a target.
TransferOps == {JMP_ABS, JMP_ABS_IND, JSR, RTS}

\* C16: the program counter never wraps past 0xFFFF with execution going on:
\* an instruction that is no jump, call or return and does not end in a fault
\* leaves pc above the address of its opcode.
C16_ProgramCounterBound ==
    \A i \in Calls :
        (/\ hist[i].kind = "instr"
         /\ hist[i].op \notin TransferOps
         /\ Post(i).state # "Fault")
            => Post(i).pc > hist[i].pre.pc

\* Call i is a reset, with or without an entry address.
IsReset(i) == i \in Calls /\ hist[i].kind = "reset"

\* sp, a, x, y and the flags after call i are those reset gives.
ResetRegisters(i) ==
    /\ Post(i).sp = 256
    /\ Post(i).a = 0
    /\ Post(i).x = 0
    /\ Post(i).y = 0
    /\ Post(i).ps = 0

\* C17: after reset(e), memory[0xFFFC] is the low byte of e, memory[0xFFFD]
\* its high byte, pc is e, sp is 0x0100, a = x = y = 0 and no flag is set.
C17_ResetWithEntry ==
    \A i \in Calls :
        (IsReset(i) /\ hist[i].arg # <<>>)
            => /\ Holds(Post(i).memory, 65532, hist[i].arg[1] % 256)
               /\ Holds(Post(i).memory, 65533, hist[i].arg[1] \div 256)
               /\ Post(i).pc = hist[i].arg[1]
               /\ ResetRegisters(i)

\* A halted engine with A, sp and the flags changed, whose vector held
\* another entry address, has just been reset to 0x1234.
C17_Witness ==
    /\ IsReset(Len(hist))
    /\ hist[Len(hist)].arg = <<4660>>
    /\ hist[Len(hist)].pre.state = "Halted"
    /\ hist[Len(hist)].pre.a # 0
    /\ hist[Len(hist)].pre.sp # 256
    /\ hist[Len(hist)].pre.ps # 0
    /\ Holds(hist[Len(hist)].pre.memory, 65532, 16)
    /\ pc = 4660
    /\ Holds(memory, 65532, 52)
    /\ Holds(memory, 65533, 18)

\* C18: after reset(None), pc is 0xFFFC, sp is 0x0100, a = x = y = 0, no flag
\* is set, and memory is what it was.
C18_ResetWithoutEntry ==
    \A i \in Calls :
        (IsReset(i) /\ hist[i].arg = <<>>)
            => /\ Post(i).pc = 65532
               /\ ResetRegisters(i)
               /\ Post(i).memory = hist[i].pre.memory

\* A halted engine with A and the flags changed, whose vector holds the entry
\* address of an earlier reset, has just been reset without an address.
C18_Witness ==
    /\ IsReset(Len(hist))
    /\ hist[Len(hist)].arg = <<>>
    /\ hist[Len(hist)].pre.state = "Halted"
    /\ hist[Len(hist)].pre.a # 0
    /\ hist[Len(hist)].pre.ps # 0
    /\ Holds(memory, 65532, 16)
    /\ pc = 65532
    /\ a = 0

\* C19: a reset that follows a reset with the same argument leaves pc, sp, a,
\* x, y, the flags and memory as the first one left them.
C19_ResetIdempotent ==
    \A i \in Calls :
        (IsReset(i) /\ IsReset(i + 1) /\ hist[i + 1].arg = hist[i].arg)
            => /\ Post(i + 1).pc = Post(i).pc
               /\ Post(i + 1).sp = Post(i).sp
               /\ Post(i + 1).a = Post(i).a
               /\ Post(i + 1).x = Post(i).x
               /\ Post(i + 1).y = Post(i).y
               /\ Post(i + 1).ps = Post(i).ps
               /\ Post(i + 1).memory = Post(i).memory

\* A halted engine with A changed has just been reset to 0x1234 twice.
C19_Witness ==
    /\ Len(hist) > 2
    /\ IsReset(Len(hist) - 1)
    /\ IsReset(Len(hist))
    /\ hist[Len(hist) - 1].arg = <<4660>>
    /\ hist[Len(hist)].arg = <<4660>>
    /\ hist[Len(hist) - 1].pre.state = "Halted"
    /\ hist[Len(hist) - 1].pre.a # 0
    /\ pc = 4660

\* C20: after a JSR at address c with target t, pc is t, sp is two less than
\* before, and the little-endian word at (new sp + 2) is c + 2, the address
\* of the last byte of the JSR; registers and addresses are 16 bits wide.
C20_CallEffect ==
    \A i \in Calls :
        Ran(i, JSR)
            => /\ Post(i).pc = CodeWord(i)
               /\ Post(i).sp = (hist[i].pre.sp - 2) % 65536
               /\ Settled(i, (Post(i).sp + 2) % 65536)
               /\ Settled(i, (Post(i).sp + 3) % 65536)
               /\ ByteAt(i, (Post(i).sp + 2) % 65536)
                  + 256 * ByteAt(i, (Post(i).sp + 3) % 65536)
                  = (hist[i].pre.pc + 2) % 65536

\* A JSR at 0xFFFC, with sp = 0x0100, has just jumped to its target and left
\* 0xFFFE in the cells 0x0100 and 0x0101, and sp at 0x00FE.
C20_Witness ==
    /\ Ran(Len(hist), JSR)
    /\ hist[Len(hist)].pre.pc = 65532
    /\ hist[Len(hist)].pre.sp = 256
    /\ sp = 254
    /\ pc = CodeWord(Len(hist))
    /\ pc = 511
    /\ Holds(memory, 256, 254)
    /\ Holds(memory, 257, 255)

\* C21: a NOP (fetched below 0xFFFF) takes the engine from Running to Halted
\* with pc at the NOP's address + 1 and sp, a, x, y, the flags and memory
\* unchanged; no instruction is executed after it (only a reset may follow).
C21_Halt ==
    \A i \in Calls :
        (/\ hist[i].kind = "instr"
         /\ hist[i].op = NOP
         /\ hist[i].pre.pc + 1 < 65536)
            => /\ hist[i].pre.state = "Running"
               /\ Post(i).state = "Halted"
               /\ Post(i).pc = hist[i].pre.pc + 1
               /\ SameRegisters(i)
               /\ SameMemory(i)
               /\ i < Len(hist) => hist[i + 1].kind = "reset"

\* A NOP has just halted an engine whose A, X and Carry had been given values.
C21_Witness ==
    /\ Len(hist) > 1
    /\ hist[Len(hist)].kind = "instr"
    /\ hist[Len(hist)].op = NOP
    /\ state = "Halted"
    /\ a = 255
    /\ x = 1
    /\ Contains(ps, C)

\* The opcodes of AND and of ORA.
AndOps ==
    {ANDA_IM, ANDA_ABS, ANDA_X_ABS, ANDA_Y_ABS, ANDA_ZP, ANDA_ZP_X, ANDA_ZP_XI,
     ANDA_ZP_IY}

OraOps ==
    {ORA_IM, ORA_ABS, ORA_X_ABS, ORA_Y_ABS, ORA_ZP, ORA_ZP_X, ORA_ZP_XI,
     ORA_ZP_IY}

\* The little-endian word in the cells address, address + 1 before call i.
WordBefore(i, address) == Before(i, address) + 256 * Before(i, address + 1)

\* The byte m a logical instruction (call i) combines with A: the immediate
\* operand, or the byte at the effective address the addressing-mode table
\* gives (16-bit sums wrap; the zero-page indexed sum is not masked).
LogicOperand(i) ==
    LET op == hist[i].op
        pre == hist[i].pre
    IN  CASE op \in {ANDA_IM, ORA_IM} -> Code(i, 1)
          [] op \in {ANDA_ZP, ORA_ZP} -> Before(i, Code(i, 1))
          [] op \in {ANDA_ZP_X, ORA_ZP_X} -> Before(i, Code(i, 1) + pre.x)
          [] op \in {ANDA_ABS, ORA_ABS} -> Before(i, CodeWord(i))
          [] op \in {ANDA_X_ABS, ORA_X_ABS} ->
                Before(i, (CodeWord(i) + pre.x) % 65536)
          [] op \in {ANDA_Y_ABS, ORA_Y_ABS} ->
                Before(i, (CodeWord(i) + pre.y) % 65536)
          [] op \in {ANDA_ZP_IY, ORA_ZP_IY} ->
                Before(i, (WordBefore(i, Code(i, 1)) + pre.y) % 65536)
          [] op \in {ANDA_ZP_XI, ORA_ZP_XI} ->
                Before(i, WordBefore(i, (Code(i, 1) + pre.x) % 256))

\* C22: after AND (ORA) in any of its eight modes, A is old A AND m (old A
\* OR m), m being the immediate operand or the byte at the effective address.
C22_LogicValue ==
    \A i \in Calls :
        /\ RanOneOf(i, AndOps) => Post(i).a = BitAnd(hist[i].pre.a, LogicOperand(i))
        /\ RanOneOf(i, OraOps) => Post(i).a = BitOr(hist[i].pre.a, LogicOperand(i))

\* The source of a transfer into A, X or Y (call i) before the call, and its
\* destination after the call.
TransferSource(i) ==
    LET op == hist[i].op
        pre == hist[i].pre
    IN  CASE op \in {TAX, TAY} -> pre.a
          [] op = TXA -> pre.x
          [] op = TYA -> pre.y
          [] op = TSX -> pre.sp % 256

TransferDest(i) ==
    LET op == hist[i].op
    IN  CASE op \in {TAX, TSX} -> Post(i).x
          [] op = TAY -> Post(i).y
          [] op \in {TXA, TYA} -> Post(i).a

\* The register a transfer (call i) reads is after the call what it was.
SourceKept(i) ==
    LET op == hist[i].op
        pre == hist[i].pre
    IN  CASE op \in {TAX, TAY} -> Post(i).a = pre.a
          [] op = TXA -> Post(i).x = pre.x
          [] op = TYA -> Post(i).y = pre.y
          [] op = TSX -> Post(i).sp = pre.sp

\* C23: TAX, TAY, TXA and TYA copy the source into the destination and TSX
\* sets X to the low byte of sp; the source is unchanged, Zero is set iff the
\* destination is 0 and Negative iff its bit 7 is 1.
C23_Transfers ==
    \A i \in Calls :
        RanOneOf(i, {TAX, TAY, TXA, TYA, TSX})
            => /\ TransferDest(i) = TransferSource(i)
               /\ SourceKept(i)
               /\ Zero(Post(i).ps) <=> TransferDest(i) = 0
               /\ Negative(Post(i).ps) <=> TransferDest(i) >= 128

\* With sp = 0x00FF after a push, and Zero set, TSX has just set X to 0xFF,
\* cleared Zero and set Negative.
C23_Witness ==
    /\ Ran(Len(hist), TSX)
    /\ hist[Len(hist)].pre.sp = 255
    /\ hist[Len(hist)].pre.x = 0
    /\ Zero(hist[Len(hist)].pre.ps)
    /\ x = 255
    /\ sp = 255
    /\ Negative(ps)
    /\ ~Zero(ps)

\* C24: TXS sets sp to 0x0100 OR X, and leaves the flags, A, X, Y and memory
\* as they were.
C24_TransferToStackPointer ==
    \A i \in Calls :
        Ran(i, TXS)
            => /\ Post(i).sp = 256 + hist[i].pre.x
               /\ Post(i).sp >= 256 /\ Post(i).sp <= 511
               /\ Post(i).ps = hist[i].pre.ps
               /\ Post(i).a = hist[i].pre.a
               /\ Post(i).x = hist[i].pre.x
               /\ Post(i).y = hist[i].pre.y
               /\ SameMemory(i)

\* With X = 0xFF, sp outside the page after a push, and a flag set, TXS has
\* just set sp to 0x01FF.
C24_Witness ==
    /\ Ran(Len(hist), TXS)
    /\ hist[Len(hist)].pre.x = 255
    /\ hist[Len(hist)].pre.sp = 255
    /\ hist[Len(hist)].pre.ps # 0
    /\ sp = 511
    /\ ps = hist[Len(hist)].pre.ps

\* The status bit SEC, respectively SEI, names.
NamedFlag(op) == IF op = SEC THEN C ELSE I

\* C25: after SEC (SEI) Carry (Interrupt-disable) is set whatever it was, every
\* other status bit is what it was, and the same instruction run again right
\* after changes no status bit.
C25_FlagSet ==
    \A i \in Calls :
        RanOneOf(i, {SEC, SEI})
            => /\ Contains(Post(i).ps, NamedFlag(hist[i].op))
               /\ \A bit \in 0..7 :
                      2 ^ bit # NamedFlag(hist[i].op)
                          => Bit(Post(i).ps, bit) = Bit(hist[i].pre.ps, bit)
               /\ Ran(i + 1, hist[i].op) => Post(i + 1).ps = Post(i).ps

\* With Negative set, SEC has just run twice: Carry and Negative are set.
C25_Witness ==
    /\ Len(hist) > 2
    /\ Ran(Len(hist) - 1, SEC)
    /\ Ran(Len(hist), SEC)
    /\ hist[Len(hist) - 1].pre.ps = N
    /\ ps = N + C

\* C26: SED (fetched below 0xFFFF) leaves the status register, a, x, y, sp and
\* memory as they were, and pc one more than before.
C26_SedNoEffect ==
    \A i \in Calls :
        (Ran(i, SED) /\ hist[i].pre.pc + 1 < 65536)
            => /\ SameRegisters(i)
               /\ SameMemory(i)
               /\ Post(i).pc = hist[i].pre.pc + 1

\* SED has just run with Negative set and Decimal clear, and left them so.
C26_Witness ==
    /\ Ran(Len(hist), SED)
    /\ hist[Len(hist)].pre.ps = N
    /\ hist[Len(hist)].pre.a = 255
    /\ ps = N
    /\ a = 255

\* C27: JMP absolute sets pc to the little-endian word after its opcode and
\* leaves sp, a, x, y, the flags and memory as they were; the instruction
\* executed next is the one at that address.
C27_JumpAbsolute ==
    \A i \in Calls :
        Ran(i, JMP_ABS)
            => /\ Post(i).pc = CodeWord(i)
               /\ SameRegisters(i)
               /\ SameMemory(i)
               /\ (i < Len(hist) /\ hist[i + 1].kind = "instr")
                      => /\ hist[i + 1].pre.pc = CodeWord(i)
                         /\ Code(i + 1, 0) = hist[i + 1].op

\* A JMP to 0x01FF has been followed by the LDA #0xFF found there.
C27_Witness ==
    /\ Len(hist) > 2
    /\ Ran(Len(hist) - 1, JMP_ABS)
    /\ CodeWord(Len(hist) - 1) = 511
    /\ Ran(Len(hist), LDA_IM)
    /\ Holds(memory, 511, LDA_IM)
    /\ a = 255
    /\ pc = 513

\* Call i is write_word(address, data) with address in 0..0xFFFE.
Wrote(i, address, data) ==
    /\ i \in Calls
    /\ hist[i].kind = "write_word"
    /\ hist[i].arg = <<address, data>>
    /\ address <= 65534

\* C28: after write_word(a, w) with a in 0..0xFFFE, memory[a] is the low byte
\* of w and memory[a + 1] its high byte, every other cell is what it was, and
\* a read_word(a) that follows returns w.
C28_WordRoundTrip ==
    \A i \in Calls : \A address \in WordAddrs : \A data \in Words :
        Wrote(i, address, data)
            => /\ Post(i).state # "Fault"
               /\ Holds(Post(i).memory, address, data % 256)
               /\ Holds(Post(i).memory, address + 1, data \div 256)
               /\ \A other \in DOMAIN Post(i).memory \ {address, address + 1} :
                      Post(i).memory[other] = Before(i, other)
               /\ (/\ i < Len(hist)
                   /\ hist[i + 1].kind = "read_word"
                   /\ hist[i + 1].arg[1] = address)
                      => hist[i + 1].arg[2] = data

\* 0x1234 has been written at 0xFFFE, after a word written at 0x00FF, and has
\* just been read back.
C28_Witness ==
    /\ Len(hist) = 3
    /\ Wrote(1, 255, 65280)
    /\ Wrote(2, 65534, 4660)
    /\ hist[3].kind = "read_word"
    /\ hist[3].arg = <<65534, 4660>>
    /\ Holds(memory, 65534, 52)
    /\ Holds(memory, 65535, 18)
    /\ Holds(memory, 256, 255)

\* Call i rendered the status register.
Shown(i) == i \in Calls /\ hist[i].kind = "display"

\* C29: the status register renders as eight characters, each '0' or '1';
\* the character at place k from the left (from 0) is '1' iff bit 7 - k of
\* the packed byte is set.
C29_Display ==
    \A i \in Calls :
        Shown(i)
            => /\ Len(hist[i].arg) = 8
               /\ \A k \in 0..7 :
                      /\ hist[i].arg[k + 1] \in {"0", "1"}
                      /\ hist[i].arg[k + 1] = "1" <=> Bit(hist[i].pre.ps, 7 - k) = 1

\* Zero alone has rendered as 00000010, and the register, cleared since, as
\* 00000000.
C29_Witness ==
    /\ Len(hist) = 3
    /\ Shown(1)
    /\ hist[1].pre.ps = Z
    /\ hist[1].arg = <<"0", "0", "0", "0", "0", "0", "1", "0">>
    /\ hist[2].kind = "clear"
    /\ Shown(3)
    /\ hist[3].arg = <<"0", "0", "0", "0", "0", "0", "0", "0">>

\* Call i is the push op, its opcode fetched below 0xFFFF.
Pushed(i, op) ==
    /\ i \in Calls
    /\ hist[i].kind = "instr"
    /\ hist[i].op = op
    /\ hist[i].pre.pc + 1 < 65536

\* Call i stored value at the old sp and took one from sp, and changed no
\* flag, no other register and no other cell.
PushEffect(i, value) ==
    /\ Post(i).state # "Fault"
    /\ Holds(Post(i).memory, hist[i].pre.sp, value)
    /\ Post(i).sp = hist[i].pre.sp - 1
    /\ Holds(Post(i).memory, Post(i).sp + 1, value)
    /\ Post(i).pc = hist[i].pre.pc + 1
    /\ Post(i).ps = hist[i].pre.ps
    /\ Post(i).a = hist[i].pre.a
    /\ Post(i).x = hist[i].pre.x
    /\ Post(i).y = hist[i].pre.y
    /\ \A other \in DOMAIN Post(i).memory \ {hist[i].pre.sp} :
           Post(i).memory[other] = Before(i, other)

\* C30: PHA (PHP) stores the accumulator (the raw status byte) at memory[old
\* sp] and then decrements sp by one, so that memory[sp + 1] holds the pushed
\* value; no flag, no register but sp and pc, and no other cell changes.
C30_PushEffect ==
    \A i \in Calls :
        /\ Pushed(i, PHA) => PushEffect(i, hist[i].pre.a)
        /\ Pushed(i, PHP) => PushEffect(i, hist[i].pre.ps)

ZpXOps == {ANDA_ZP_X, ORA_ZP_X, LSR_ZP_X}

\* Call i is one of the instructions ops, its bytes fetched below 0xFFFF.
Did(i, ops) ==
    /\ i \in Calls
    /\ hist[i].kind = "instr"
    /\ hist[i].op \in ops
    /\ hist[i].pre.pc + 3 < 65536

\* The cell at the unmasked sum of the operand byte and X of call i.
ZpXCell(i) == Code(i, 1) + hist[i].pre.x

\* C31: AND zp,X, ORA zp,X and LSR zp,X with operand byte b access the cell
\* b + X, not reduced to 8 bits, and do not fault when b + X exceeds 0xFF.
C31_ZeroPageXAddress ==
    \A i \in Calls :
        Did(i, ZpXOps)
            => /\ Post(i).state # "Fault"
               /\ Known(i, ZpXCell(i))
               /\ hist[i].op = ANDA_ZP_X
                      => Post(i).a = BitAnd(hist[i].pre.a, Before(i, ZpXCell(i)))
               /\ hist[i].op = ORA_ZP_X
                      => Post(i).a = BitOr(hist[i].pre.a, Before(i, ZpXCell(i)))
               /\ hist[i].op = LSR_ZP_X
                      => Holds(Post(i).memory, ZpXCell(i), Before(i, ZpXCell(i)) \div 2)

\* The instructions by the bytes that follow their opcode.
NoOperandOps ==
    {LSR_ACC, PHA, PHP, PLA, PLP, TAX, TAY, TSX, TXA, TXS, TYA, SEC, SED, SEI}

TwoOperandOps ==
    {LDA_ABS, LDA_ABS_X, LDA_ABS_Y, LDX_ABS, LDX_ABS_Y, LDY_ABS, LDY_ABS_X,
     LSR_ABS, LSR_ABS_X, ANDA_ABS, ANDA_X_ABS, ANDA_Y_ABS, ORA_ABS, ORA_X_ABS,
     ORA_Y_ABS}

OneOperandOps ==
    Dispatched \ (NoOperandOps \cup TwoOperandOps \cup {JMP_ABS, JMP_ABS_IND, JSR, RTS, NOP})

OperandCount(op) ==
    IF op \in NoOperandOps THEN 0 ELSE IF op \in OneOperandOps THEN 1 ELSE 2

\* C32: every instruction other than JMP, JSR, RTS and NOP leaves pc at the
\* address of its opcode + 1 + the number of its operand bytes (0 implied or
\* accumulator; 1 immediate and the zero-page modes; 2 the absolute modes).
C32_InstructionLength ==
    \A i \in Calls :
        \A op \in NoOperandOps \cup OneOperandOps \cup TwoOperandOps :
            (Ran(i, op) /\ hist[i].pre.pc + 3 < 65536)
                => Post(i).pc = hist[i].pre.pc + 1 + OperandCount(op)

\* At 0x0010 a three-byte OR, then a two-byte load has just run: pc is 0x0015.
C32_Witness ==
    /\ Len(hist) = 3
    /\ Ran(2, ORA_X_ABS)
    /\ Ran(3, LDX_IM)
    /\ hist[2].pre.pc = 16
    /\ hist[3].pre.pc = 19
    /\ pc = 21

\* C33: in every state reached from reset by instructions, PLP of any byte
\* among them, bit 5 (0x20) of the status byte is 0, and so is bit 5 of every
\* byte PHP writes to the stack.
C33_UnusedBit ==
    /\ Bit(ps, 5) = 0
    /\ \A i \in Calls :
           Ran(i, PHP) => Bit(ByteAt(i, hist[i].pre.sp), 5) = 0

\* PLP has pulled 0xFF, and PHP has just written the status 0xDF back.
C33_Witness ==
    /\ Len(hist) = 3
    /\ Ran(2, PLP)
    /\ Pulled(2) = 255
    /\ Ran(3, PHP)
    /\ ps = 223
    /\ Holds(memory, hist[3].pre.sp, 223)

\* C34: PHA; JSR t; RTS (at t); PLA leaves A as it was before the PHA: the
\* JSR leaves the cell the PHA wrote as it is.
C34_CallKeepsStack ==
    \A i \in Calls :
        (Ran(i, PHA) /\ Ran(i + 1, JSR))
            => /\ ByteAt(i + 1, hist[i].pre.sp) = hist[i].pre.a
               /\ (Ran(i + 2, RTS) /\ Ran(i + 3, PLA))
                      => Post(i + 3).a = hist[i].pre.a

\* Pushes less pulls among the calls i + 1 .. k.
PushDepth(i, k) ==
    Cardinality({m \in (i + 1)..k : hist[m].op = PHA})
        - Cardinality({m \in (i + 1)..k : hist[m].op = PLA})

\* The PLA of call j pulls what the PHA of call i pushed: between them run
\* only loads of A and pushes that are each pulled again.
Matched(i, j) ==
    /\ i < j
    /\ Ran(i, PHA)
    /\ Ran(j, PLA)
    /\ \A k \in (i + 1)..(j - 1) :
           /\ RanOneOf(k, {PHA, PLA, LDA_IM})
           /\ PushDepth(i, k) >= 0
    /\ PushDepth(i, j - 1) = 0

\* C35: values pushed with PHA from the sp reset sets are returned by as many
\* PLA in the reverse order of the pushes: each PLA returns the value of the
\* push it matches and leaves sp where that push found it.
C35_LastInFirstOut ==
    \A i \in Calls : \A j \in Calls :
        (Matched(i, j) /\ hist[i].pre.sp <= 256)
            => /\ Post(j).a = hist[i].pre.a
               /\ Post(j).sp = hist[i].pre.sp

\* 0 then 0xFF are pushed from sp = 0x0100; the first pull has returned 0xFF
\* and the second has just returned 0, with sp back at 0x0100.
C35_Witness ==
    /\ Len(hist) = 6
    /\ Ran(2, PHA)
    /\ hist[2].pre.sp = 256
    /\ hist[2].pre.a = 0
    /\ Ran(3, LDA_IM)
    /\ Ran(4, PHA)
    /\ hist[4].pre.a = 255
    /\ Matched(4, 5)
    /\ Matched(2, 6)
    /\ hist[6].pre.a = 255
    /\ a = 0
    /\ sp = 256

MoveOps == {TAX, TAY, TSX, TXA, TXS, TYA}

\* The instructions that read memory or none of it, and store nothing.
NoWriteOps ==
    LdaOps \cup LdxOps \cup LdyOps \cup AndOps \cup OraOps \cup MoveOps
        \cup {SEC, SED, SEI, JMP_ABS, JMP_ABS_IND, RTS, PLA, PLP}

\* Call i left sp and the registers among a, x, y that are not in dests.
OtherRegistersKept(i, dests) ==
    /\ Post(i).sp = hist[i].pre.sp
    /\ "a" \notin dests => Post(i).a = hist[i].pre.a
    /\ "x" \notin dests => Post(i).x = hist[i].pre.x
    /\ "y" \notin dests => Post(i).y = hist[i].pre.y

\* The register a load or logical instruction writes.
DestOf(op) ==
    IF op \in LdxOps THEN {"x"} ELSE IF op \in LdyOps THEN {"y"} ELSE {"a"}

\* C36: load, AND, ORA, transfer, flag-set, jump, RTS, PLA and PLP write no
\* memory cell; a memory-mode LSR writes only the cell at its effective
\* address and leaves A, X, Y and sp; a load or logical instruction changes
\* no register but its destination and pc.
C36_Frame ==
    \A i \in Calls :
        /\ RanOneOf(i, NoWriteOps) => SameMemory(i)
        /\ RanOneOf(i, LsrOps \ {LSR_ACC})
               => /\ \A address \in DOMAIN Post(i).memory \ {ShiftCell(i)} :
                         Post(i).memory[address] = Before(i, address)
                  /\ OtherRegistersKept(i, {})
        /\ RanOneOf(i, LdaOps \cup LdxOps \cup LdyOps \cup AndOps \cup OraOps)
               => OtherRegistersKept(i, DestOf(hist[i].op))

\* X is 0xFF; LSR zp has just halved a cell that held 0xFF, and X, A and sp
\* are what they were.
C36_Witness ==
    /\ Len(hist) = 3
    /\ Ran(2, LDX_IM)
    /\ Ran(3, LSR_ZP)
    /\ Before(3, ShiftCell(3)) = 255
    /\ Holds(memory, ShiftCell(3), 127)
    /\ x = 255
    /\ a = 0
    /\ sp = 256

\* The flags other than Zero and Negative.
FrameFlags == C + V + B + D + I

\* The instructions that set flags from a value: Zero and Negative only.
ValueOps ==
    LdaOps \cup LdxOps \cup LdyOps \cup AndOps \cup OraOps \cup MoveOps \cup {PLA}

\* C37: load, AND, ORA, PLA and register-transfer instructions leave Carry,
\* Overflow, Break, Decimal and Interrupt-disable as they were; Carry is
\* changed by no instruction but SEC, LSR and PLP.
C37_FlagFrame ==
    \A i \in Calls :
        /\ RanOneOf(i, ValueOps)
               => BitAnd(Post(i).ps, FrameFlags) = BitAnd(hist[i].pre.ps, FrameFlags)
        /\ (/\ hist[i].kind = "instr"
            /\ Contains(Post(i).ps, C) # Contains(hist[i].pre.ps, C))
               => hist[i].op \in LsrOps \cup {SEC, PLP}

\* PLP has set every flag; a load of 0 has just cleared Negative and left the
\* other six set.
C37_Witness ==
    /\ Len(hist) = 3
    /\ Ran(2, PLP)
    /\ hist[3].pre.ps = AllFlags
    /\ Ran(3, LDA_IM)
    /\ a = 0
    /\ ps = AllFlags - N

\* C38: a program of known opcodes that are no jump, call or return, followed
\* by NOP and lying below 0xFFFF, started after reset at an entry address,
\* makes execute reach Halted.
C38_Termination == [](state = "Running" => <>(state = "Halted"))

====
